---- MODULE Spec2Model ----
(***************************************************************************)
(* Device proxy and event-driven state synchronisation engine of therm-2. *)
(*                                                                         *)
(* The module holds one state machine per part of the engine:              *)
(*   Spec      one-shot correlation on one status of a push component      *)
(*             (execute_and_wait_for_status, wait_for_status)              *)
(*   WatchSpec continuous watches on one status of a push component        *)
(*   AnySpec   AsyncDeviceProxy.wait_for_any_status                        *)
(*   CmdSpec   AsyncCommandProcessor (add_command and its consumer loop)   *)
(*   StateSpec AsyncStateManager refreshes against event-driven updates    *)
(*   StreamSpec, StreamLiveSpec  the change stream of the state manager    *)
(*   HeartbeatSpec  heartbeat refresh and heartbeat listener               *)
(*   BulkSpec       refresh_all_data, one task per device                  *)
(*   ShutdownSpec   run_app: initialize, start, shutdown                   *)
(*   LookupSpec     calls by command and status name                       *)
(*   WatchStopSpec  WatchSpec with the scheduling of stop_continuous_wait  *)
(*   CondSpec       a continuous watch with a stop_condition               *)
(*   QueueSpec      the status queue of a push component under a long run  *)
(*                  of messages                                            *)
(*   DiscoverSpec   capability discovery on one component class            *)
(*   ChannelSpec    the heartbeat response channel of one namespace        *)
(*   PollSpec       one status of a pull component: the adapter's poll     *)
(*                  loop, polling watches and the periodic refresh loop    *)
(* Every part keeps the variables of the other parts at their initial      *)
(* values.  A payload is the sequence number of the status message that    *)
(* carried it (1, 2, ...); 0 stands for Python's None.                     *)
(***************************************************************************)
EXTENDS Integers, Sequences, FiniteSets, TLC

\* ---------------------------------------------------------------- bounds
\* status messages the transport delivers to one status (Spec, WatchSpec)
MaxUpdates == 2
\* calls each caller makes (Spec)
MaxCalls == 2

\* status messages delivered to the device (AnySpec)
MaxAnyUpdates == 2
\* wait_for_any_status calls (AnySpec)
MaxAnyCalls == 2
\* add_command calls (CmdSpec)
MaxCmds == 2
\* _run_loop tasks ever created (CmdSpec)
MaxLoops == 3
\* status messages delivered to the state manager's paths (StateSpec)
MaxStateUpdates == 3
\* refreshes started (StateSpec)
MaxRefreshes == 2
\* set_state calls (StateSpec)
MaxSets == 2
\* heartbeat replies of the namespace (HeartbeatSpec)
MaxReplies == 3
\* heartbeat probes (HeartbeatSpec)
MaxProbes == 3
\* bulk refreshes (BulkSpec)
MaxBulk == 2
\* bindings of one device (BulkSpec)
NumBindings == 2
\* calls by name on the proxy (LookupSpec)
MaxLookups == 3
\* status updates delivered to the watch with a stop_condition (CondSpec)
MaxCondUpdates == 3
\* iterations the polling tasks of a pull component make together (PollSpec)
MaxPolls == 5
\* times the device behind a pull component changes its value (PollSpec)
MaxChanges == 1
\* values a status of a pull component takes (PollSpec)
NumValues == 2
\* status messages the transport delivers to one status (QueueSpec): one more
\* than the largest maxsize of a status queue
MaxArrivals == 101
\* events one data command is tagged with (DiscoverSpec)
MaxEvents == 2

\* calls of start_continuous_refresh
MaxStarts == 2

\* calls of stink_mode_on (StinkSpec)
MaxOns == 2

\* largest timeout, in seconds, passed to wait_for_status (TimedWaitSpec)
MaxTimeout == 2

\* APIClient objects _reconnect creates (ReconnectSpec)
MaxReconnects == 2

\* ------------------------------------------------------- program constants
\* UnifiedComponentProxy: asyncio.Queue(maxsize=100)
UnifiedQueueMax == 100
\* AsyncComponentProxy: asyncio.Queue() has maxsize 0, which means unbounded
AsyncQueueMax == 0

None == 0
Kinds == {"async", "unified"}
Callers == {"c1", "c2"}
Listeners == {"l1", "l2"}
Devices == {"d1", "d2"}
Bindings == 1..NumBindings
Watchers == {"w1", "w2"}
\* the polling tasks of a pull component: the adapter's poll task, the periodic
\* refresh task and the polling watches
PollLoops == {"poll", "refresh"} \cup Watchers
\* the (component, status) pairs of one device
AnyPairs == {"x.s", "y.s"}
\* the _run_loop tasks start_processing can create
Loops == 1..MaxLoops
\* the status paths of the declared data-command bindings, in declaration order
PathOrder == <<"p", "q">>
Paths == {PathOrder[i] : i \in 1..Len(PathOrder)}
\* the keys of the internal state, and the values set_state is called with
InternalKeys == {"control"}
InternalValues == {1, 2}

VARIABLES
    \* ---- the proxy of one push component, one status
    kind,        \* "async": AsyncComponentProxy, "unified": UnifiedComponentProxy over MQTT
    event,       \* status_events[status].is_set()
    latest,      \* latest_status_data[status] / base_component._status_cache[status]
    queue,       \* status_queues[status]
    delivered,   \* number of status messages the transport has delivered
    \* ---- one-shot callers
    cpc,         \* where each caller is in its call
    cop,         \* "exec": execute_and_wait_for_status, "wait": wait_for_status
    ctimed,      \* wait_for_status: whether a truthy timeout was given
    cres,        \* the call's outcome
    creplied,    \* a status message was delivered since this call cleared the flag
    ccalls,      \* calls this caller has made
    csince,      \* messages delivered when this caller's call began
    \* ---- continuous watches
    wpc,         \* where each watch task is
    wstop,       \* continuous_wait_stop_flags[id].is_set()
    wreg,        \* id in continuous_waits / continuous_listeners
    spc,         \* where stop_continuous_wait(id) is
    calls,       \* payloads the watch's callback was invoked with, in order
    wsince,      \* value of delivered when the watch was created
    wafter,      \* a status message was delivered after stop_continuous_wait(id) returned
    \* ---- wait_for_any_status on one device
    aflag,       \* status_events[status].is_set() of each (component, status) pair
    alatest,     \* latest_status_data[status] of each pair
    acount,      \* number of status messages delivered to the device
    tk,          \* the event.wait() task the call created for each pair
    apc,         \* where the call is
    ares,        \* what the call returned
    afirst,      \* the first pair updated after the call began ("" while none)
    acalls,      \* calls made
    \* ---- AsyncCommandProcessor
    command_queue,   \* self.command_queue
    running,         \* self.running
    processor_task,  \* self.processor_task (None or a loop task)
    lpc,             \* where each _run_loop task is
    lcur,            \* the command a loop task is handling
    lcancel,         \* task.cancel() was called and CancelledError is not yet thrown
    joining,         \* tasks a stop_processing call is awaiting
    submitted,       \* number of add_command calls (commands are numbered in that order)
    started,         \* the commands whose handling has begun, in that order
    \* ---- AsyncStateManager
    ext,         \* self._external_states
    slatest,     \* the proxies' latest status value of each path
    sq,          \* the proxies' status queue of each path, drained by the event listener
    scount,      \* number of status messages delivered
    rpc,         \* where the refresh is
    rmode,       \* "all": refresh_all_data, "stale": _refresh_stale_data
    rnew,        \* the refresh's new_external_states / new_states
    ridx,        \* index of the binding the refresh is at
    rwoken,      \* the status the refresh waits for was delivered since the wait began
    seen,        \* the newest value an event-driven update wrote for each path
    rcount,      \* refreshes started
    internal,    \* self._internal_states
    lastset,     \* the value most recently given to each internal key
    utasks,      \* update_state_queue tasks created and not yet run
    state_queue, \* self.state_queue: the change stream
    changes,     \* number of assignments that changed a state dict
    published,   \* number of snapshots put on the change stream
    setcalls,    \* set_state calls made
    dver,        \* the newest snapshot version get_state_updates has delivered
    \* ---- heartbeat of one transport namespace
    hrunning,    \* AsyncStateManager.running
    hrec,        \* the record the snapshot holds under the heartbeat path
    hpc,         \* where the heartbeat refresh is
    hgot,        \* a reply arrived since the probe was sent
    hnew,        \* the record the refresh put in its new_states
    hq,          \* replies waiting on the namespace's heartbeat_queue
    hlis,        \* where the heartbeat_monitor_task is
    hreplies,    \* replies the namespace has sent
    hprobes,     \* probes sent
    \* ---- bulk refresh, one task per device
    bmain,       \* where refresh_all_data is
    bcount,      \* bulk refreshes started
    btask,       \* per device: the state of its _refresh_device_data task
    bidx,        \* per device: the binding its task is at
    bout,        \* per device and binding: how the binding's command ended
    bnew,        \* new_external_states of the refresh in progress
    bext,        \* the snapshot's entries for the bindings
    \* ---- application lifecycle
    aphase,      \* where run_app / shutdown is
    smrunning,   \* AsyncStateManager.running as shutdown sees it
    ltask,       \* per event listener: the state of its watch task
    lflag,       \* per event listener: its stop flag
    lgot,        \* per event listener: its callback has stored an update
    ljoin,       \* the listener stop_continuous_refresh is waiting for
    mtask,       \* the heartbeat monitor task
    rtask,       \* the periodic refresh task
    transport,   \* the connection of the device manager
    \* ---- calls by name on one component proxy
    kcall,       \* the last call: operation, names, how it ended
    kpublished,  \* commands published so far
    ktasks,      \* background watch tasks created so far
    kbefore,     \* kpublished and ktasks when the last call began
    kcalls,      \* calls made
    \* ---- one continuous watch started with a stop_condition
    cwpc,        \* where the watch task is
    cwstop,      \* its stop flag (async)
    cwcond,      \* what stop_condition() returns now
    cwq,         \* updates waiting on the status queue
    cwsent,      \* updates delivered so far
    cwcalls,     \* callbacks run
    cwreg,       \* whether the proxy's registry holds the watch's id
    cwspc,       \* where the stop_continuous_wait call on the watch is
    \* ---- one status of a pull component behind a unified proxy
    pdev,        \* the value the device would report now
    pchanges,    \* times the device's value changed
    pcache,      \* the component's _status_cache entry of the status
    pemits,      \* values the adapter's poll loop emitted to subscribers
    pevent,      \* the proxy's status event of the status
    pq,          \* the proxy's status queue of the status
    ppc,         \* per polling task: where it is
    pn,          \* iterations the polling tasks made together
    pwho,        \* the task that made the latest iteration
    pout,        \* how the latest iteration ended
    pstat,       \* per polling task: whether it failed, and went on after it
    pwseen,      \* per watch: the value its latest successful poll read
    pwcalls,     \* per watch: payloads its callback was called with
    pwait,       \* where the wait_for_status caller is
    pwsince,     \* emissions made when the wait_for_status call began
    \* ---- capability discovery on one component class
    ddecl,       \* whether the component class has been declared
    devents,     \* the events the data command is tagged with, in order
    dtrig,       \* per status method: the events it triggers on
    dbound,      \* per discoverer: the statuses it bound the command to
    ddone,       \* the discoverers that have run
    \* ---- the heartbeat response channel of one namespace
    hbsent,      \* probes sent; the n-th probe carries request_id n
    hbcbs,       \* the manager's heartbeat_callbacks list
    hbmsgs,      \* request_ids of the messages received on the response topic
    hbseen,      \* per callback: request_ids of the payloads it was called with
    hbat,        \* per callback: messages received when it was registered
    \* ---- start_continuous_refresh / stop_continuous_refresh of the state manager
    crun,        \* self.running of the state manager
    crtask,      \* self.refresh_task: 0 for None, else the loop task it names
    crloop,      \* state of every _periodic_refresh_loop task
    crcancel,    \* loop tasks with a cancellation requested
    crpc,        \* where each caller of start/stop is suspended
    cridx,       \* the listener each stopping caller awaits, the task it joins
    crlis,       \* state of the continuous wait of every binding
    crreg,       \* keys of self.event_listeners
    crstarts,    \* start_continuous_refresh calls made
    crleft,      \* loop tasks still running when stop_continuous_refresh last returned
    \* ---- one _run_loop task and the handlers it awaits
    hlq,         \* command_queue: the (command, data) items not yet taken
    hlrun,       \* self.running
    hlpc,        \* where the _run_loop task is
    hlcur,       \* the item whose handler is awaited, 0 for none
    hlsub,       \* items submitted with add_command
    hlexec,      \* numbers of the items dispatched, in dispatch order
    hlfail,      \* numbers of the items whose handling raised
    hllog,       \* logging.error calls: the item and the except clause that logged
    \* ---- StinkMode: the auto-off timer and stink_mode_off
    skmode,      \* the stink_mode state of the state manager
    skons,       \* stink_mode_on calls made; self.timer_task is the task of the latest
    sktimer,     \* state of the _auto_off_timer task each stink_mode_on created
    skcancel,    \* who has called cancel() on each timer task
    skpc,        \* restore command each runner of stink_mode_off is at, 0 when not in it
    skissued,    \* restore commands issued by each runner's latest stink_mode_off
    \* ---- wait_for_status and its timeout argument
    twpc,        \* where the caller of wait_for_status is
    twarg,       \* the timeout argument of the call
    twleft,      \* seconds left on the wait_for timer, -1 when there is none
    twevent,     \* the asyncio.Event of the status
    twres,       \* what the call returned
    twcalls,     \* wait_for_status calls made
    twmsgs,      \* status messages delivered
    \* ---- ESPHomeACComponent: the connection and _reconnect
    rclink,      \* whether the connection of self.client works
    rcconn,      \* self.connected
    rclock,      \* the task holding self._reconnection_lock, "" for none
    rcgen,       \* APIClient objects _reconnect has created
    rcpc,        \* where each task is in heartbeat / _reconnect
    rcprobe,     \* the client each task's device_info call was made on
    rcredo       \* tasks that tore down a connection another task had just made

proxyVars == <<kind, event, latest, queue, delivered>>
callerVars == <<cpc, cop, ctimed, cres, creplied, ccalls, csince>>
watchVars == <<wpc, wstop, wreg, spc, calls, wsince, wafter>>
anyVars == <<aflag, alatest, acount, tk, apc, ares, afirst, acalls>>
cmdVars == <<command_queue, running, processor_task, lpc, lcur, lcancel, joining, submitted, started>>
streamVars == <<internal, lastset, utasks, state_queue, changes, published, setcalls, dver>>
stateVars == <<ext, slatest, sq, scount, rpc, rmode, rnew, ridx, rwoken, seen, rcount, streamVars>>
hbVars == <<hrunning, hrec, hpc, hgot, hnew, hq, hlis, hreplies, hprobes>>
bulkVars == <<bmain, bcount, btask, bidx, bout, bnew, bext>>
shutVars == <<aphase, smrunning, ltask, lflag, lgot, ljoin, mtask, rtask, transport>>
lookupVars == <<kcall, kpublished, ktasks, kbefore, kcalls>>
condVars == <<cwpc, cwstop, cwcond, cwq, cwsent, cwcalls, cwreg, cwspc>>
pollVars == <<pdev, pchanges, pcache, pemits, pevent, pq, ppc, pn, pwho, pout, pstat,
              pwseen, pwcalls, pwait, pwsince>>
discVars == <<ddecl, devents, dtrig, dbound, ddone>>
hbchVars == <<hbsent, hbcbs, hbmsgs, hbseen, hbat>>
contVars == <<crun, crtask, crloop, crcancel, crpc, cridx, crlis, crreg, crstarts, crleft>>
hlVars == <<hlq, hlrun, hlpc, hlcur, hlsub, hlexec, hlfail, hllog>>
skVars == <<skmode, skons, sktimer, skcancel, skpc, skissued>>
twVars == <<twpc, twarg, twleft, twevent, twres, twcalls, twmsgs>>
rcVars == <<rclink, rcconn, rclock, rcgen, rcpc, rcprobe, rcredo>>
lateVars == <<discVars, hbchVars, contVars, hlVars, skVars, twVars, rcVars>>
extraVars == <<hbVars, bulkVars, shutVars, lookupVars, condVars, pollVars, lateVars>>
otherVars == <<anyVars, cmdVars, stateVars, extraVars>>
vars == <<proxyVars, callerVars, watchVars, otherVars>>

Unset == [tag |-> "unset", v |-> 0]
ResNone == [tag |-> "None", v |-> 0]
ResValue(x) == [tag |-> "value", v |-> x]
ResTrue == [tag |-> "True", v |-> 0]
ResFalse == [tag |-> "False", v |-> 0]
ResRaised == [tag |-> "raised", v |-> 0]

\* ------------------------------------------------------------ initial state
ProxyInit ==
    /\ kind \in Kinds
    /\ event = FALSE
    /\ latest = None
    /\ queue = <<>>
    /\ delivered = 0

CallersIdle ==
    /\ cpc = [c \in Callers |-> "idle"]
    /\ cop = [c \in Callers |-> "none"]
    /\ ctimed = [c \in Callers |-> FALSE]
    /\ cres = [c \in Callers |-> Unset]
    /\ creplied = [c \in Callers |-> FALSE]
    /\ ccalls = [c \in Callers |-> 0]
    /\ csince = [c \in Callers |-> 0]

WatchersIdle ==
    /\ wpc = [w \in Watchers |-> "none"]
    /\ wstop = [w \in Watchers |-> FALSE]
    /\ wreg = [w \in Watchers |-> FALSE]
    /\ spc = [w \in Watchers |-> "idle"]
    /\ calls = [w \in Watchers |-> <<>>]
    /\ wsince = [w \in Watchers |-> 0]
    /\ wafter = [w \in Watchers |-> FALSE]

AnyUnset == [tag |-> "unset", pair |-> "", v |-> 0]
AnyNone == [tag |-> "None", pair |-> "", v |-> 0]
AnyTuple(p, x) == [tag |-> "tuple", pair |-> p, v |-> x]

AnyIdle ==
    /\ aflag = [p \in AnyPairs |-> FALSE]
    /\ alatest = [p \in AnyPairs |-> None]
    /\ acount = 0
    /\ tk = [p \in AnyPairs |-> "none"]
    /\ apc = "idle"
    /\ ares = AnyUnset
    /\ afirst = ""
    /\ acalls = 0

CmdIdle ==
    /\ command_queue = <<>>
    /\ running = FALSE
    /\ processor_task = None
    /\ lpc = [l \in Loops |-> "none"]
    /\ lcur = [l \in Loops |-> None]
    /\ lcancel = [l \in Loops |-> FALSE]
    /\ joining = {}
    /\ submitted = 0
    /\ started = <<>>

\* a dict with no key
EmptyDict == [x \in {} |-> None]

\* config["internal_state"], copied into _internal_states by __init__
ConfigInternalState == [k \in InternalKeys |-> 1]

StateIdle ==
    /\ ext = EmptyDict
    /\ slatest = [p \in Paths |-> None]
    /\ sq = [p \in Paths |-> <<>>]
    /\ scount = 0
    /\ rpc = "idle"
    /\ rmode = "all"
    /\ rnew = EmptyDict
    /\ ridx = 1
    /\ rwoken = FALSE
    /\ seen = [p \in Paths |-> None]
    /\ rcount = 0
    /\ internal = ConfigInternalState
    /\ lastset = ConfigInternalState
    /\ utasks = 0
    /\ state_queue = <<>>
    /\ changes = 0
    /\ published = 0
    /\ setcalls = 0
    /\ dver = 0

HeartbeatIdle ==
    /\ hrunning = FALSE
    /\ hrec = "absent"
    /\ hpc = "idle"
    /\ hgot = FALSE
    /\ hnew = "none"
    /\ hq = 0
    /\ hlis = "created"
    /\ hreplies = 0
    /\ hprobes = 0

BulkIdle ==
    /\ bmain = "idle"
    /\ bcount = 0
    /\ btask = [d \in Devices |-> "none"]
    /\ bidx = [d \in Devices |-> 1]
    /\ bout = [d \in Devices |-> [b \in Bindings |-> "unset"]]
    /\ bnew = [d \in Devices |-> [b \in Bindings |-> "absent"]]
    /\ bext = [d \in Devices |-> [b \in Bindings |-> "absent"]]

AppNew ==
    /\ aphase = "new"
    /\ smrunning = FALSE
    /\ ltask = [l \in Listeners |-> "none"]
    /\ lflag = [l \in Listeners |-> FALSE]
    /\ lgot = [l \in Listeners |-> FALSE]
    /\ ljoin = "none"
    /\ mtask = "none"
    /\ rtask = "none"
    /\ transport = "none"

NoCall == [op |-> "none", command |-> "none", status |-> "none", result |-> "none"]

LookupIdle ==
    /\ kcall = NoCall
    /\ kpublished = 0
    /\ ktasks = 0
    /\ kbefore = <<0, 0>>
    /\ kcalls = 0

CondIdle ==
    /\ cwpc = "none"
    /\ cwstop = FALSE
    /\ cwcond = FALSE
    /\ cwq = 0
    /\ cwsent = 0
    /\ cwcalls = 0
    /\ cwreg = FALSE
    /\ cwspc = "idle"

\* a pull component just initialised: nothing polled yet, no watch, the
\* adapter's poll task and the periodic refresh task created
PollIdle ==
    /\ pdev = 1
    /\ pchanges = 0
    /\ pcache = None
    /\ pemits = <<>>
    /\ pevent = FALSE
    /\ pq = <<>>
    /\ ppc = [l \in PollLoops |-> IF l \in Watchers THEN "none" ELSE "ready"]
    /\ pn = 0
    /\ pwho = "none"
    /\ pout = "none"
    /\ pstat = [l \in PollLoops |-> "none"]
    /\ pwseen = [w \in Watchers |-> None]
    /\ pwcalls = [w \in Watchers |-> <<>>]
    /\ pwait = "idle"
    /\ pwsince = 0

\* no component class declared yet and no discovery run
DiscIdle ==
    /\ ddecl = FALSE
    /\ devents = <<>>
    /\ dtrig = [s \in {"s1", "s2"} |-> {}]
    /\ dbound = [i \in {"inspector", "proxy", "adapter"} |-> {}]
    /\ ddone = {}

\* a connected manager: no probe sent, no heartbeat callback registered
ChannelIdle ==
    /\ hbsent = 0
    /\ hbcbs = <<>>
    /\ hbmsgs = <<>>
    /\ hbseen = [c \in {"cb1", "cb2"} |-> <<>>]
    /\ hbat = [c \in {"cb1", "cb2"} |-> 0]

\* the coroutines that call start_continuous_refresh and stop_continuous_refresh
RefreshCallers == {"a1", "a2"}

\* the tasks start_continuous_refresh creates, in creation order
LoopTasks == 1..MaxStarts

\* the state manager as get_instance leaves it: not running, no refresh task, one listener per status binding
ContinuousIdle ==
    /\ crun = FALSE
    /\ crtask = 0
    /\ crloop = [t \in LoopTasks |-> "none"]
    /\ crcancel = {}
    /\ crpc = [c \in RefreshCallers |-> "idle"]
    /\ cridx = [c \in RefreshCallers |-> 0]
    /\ crlis = [b \in Bindings |-> "active"]
    /\ crreg = Bindings
    /\ crstarts = 0
    /\ crleft = {}

\* the command processor with its loop task waiting on an empty queue
RunLoopIdle ==
    /\ hlq = <<>>
    /\ hlrun = TRUE
    /\ hlpc = "getting"
    /\ hlcur = 0
    /\ hlsub = 0
    /\ hlexec = <<>>
    /\ hlfail = {}
    /\ hllog = {}

\* stink mode off, no timer task yet
StinkIdle ==
    /\ skmode = FALSE
    /\ skons = 0
    /\ sktimer = [t \in 1..MaxOns |-> "none"]
    /\ skcancel = [t \in 1..MaxOns |-> "none"]
    /\ skpc = [r \in 0..MaxOns |-> 0]
    /\ skissued = [r \in 0..MaxOns |-> {}]

\* no wait_for_status call in progress, the status event clear
TimedWaitIdle ==
    /\ twpc = "idle"
    /\ twarg = -1
    /\ twleft = -1
    /\ twevent = FALSE
    /\ twres = "unset"
    /\ twcalls = 0
    /\ twmsgs = 0

\* the component after initialize: connected, the lock free
ReconnectIdle ==
    /\ rclink = "up"
    /\ rcconn = TRUE
    /\ rclock = ""
    /\ rcgen = 0
    /\ rcpc = [c \in {"h1", "h2"} |-> "idle"]
    /\ rcprobe = [c \in {"h1", "h2"} |-> 0]
    /\ rcredo = {}

\* ------------------------------------------------- the status event record
\* asyncio.Event.clear()
EventClearSkipped(e) == e
EventClear(e) == FALSE

\* asyncio.Event.set(): every task waiting on the event is resumed
EventSetNoWake(pc) == pc
EventSetWake(pc) == [c \in DOMAIN pc |-> IF pc[c] = "waiting" THEN "woken" ELSE pc[c]]

\* asyncio.Queue.put_nowait, with the except QueueFull branch of the status
\* callbacks: drop the oldest item, then put
QueuePutNowait(q, v, maxsize) ==
    IF maxsize > 0 /\ Len(q) >= maxsize THEN Append(Tail(q), v) ELSE Append(q, v)

\* AsyncComponentProxy status_callback: cache, queue, then event
AsyncStatusCallbackNoQueue(q, v) == q
AsyncStatusCallback(q, v) == QueuePutNowait(q, v, AsyncQueueMax)

\* UnifiedComponentProxy._handle_status_update: event, then queue
HandleStatusUpdate(q, v) == QueuePutNowait(q, v, UnifiedQueueMax)

\* ImprovedConfigLoader mqtt_callback: _emit_status_update runs the callback
\* subscribed by _setup_status_monitoring (_handle_status_update), and then the
\* callback calls _handle_status_update itself
UnifiedMqttCallback(q, v) == HandleStatusUpdate(HandleStatusUpdate(q, v), v)

\* The transport delivers the next status message of the watched status.
Deliver ==
    /\ delivered < MaxUpdates
    /\ delivered' = delivered + 1
    /\ latest' = delivered + 1
    /\ queue' = IF kind = "async" THEN AsyncStatusCallback(queue, delivered + 1)
                ELSE UnifiedMqttCallback(queue, delivered + 1)
    /\ event' = TRUE
    /\ cpc' = EventSetWake(cpc)
    /\ creplied' = [c \in Callers |->
                      IF cpc[c] \in {"publishing", "waiting"} THEN TRUE ELSE creplied[c]]
    /\ wafter' = [w \in Watchers |-> wafter[w] \/ spc[w] = "returned"]
    /\ UNCHANGED <<kind, cop, ctimed, cres, ccalls, csince, wpc, wstop, wreg, spc, calls, wsince, otherVars>>

\* ------------------------------------------------------- one-shot callers
\* execute_and_wait_for_status up to its first suspension: the flag is cleared
\* and the command is handed to the transport
ExecBegin(c) ==
    /\ cpc[c] = "idle"
    /\ ccalls[c] < MaxCalls
    /\ event' = EventClear(event)
    /\ cpc' = [cpc EXCEPT ![c] = "publishing"]
    /\ cop' = [cop EXCEPT ![c] = "exec"]
    /\ cres' = [cres EXCEPT ![c] = Unset]
    /\ creplied' = [creplied EXCEPT ![c] = FALSE]
    /\ ccalls' = [ccalls EXCEPT ![c] = @ + 1]
    /\ csince' = [csince EXCEPT ![c] = delivered]
    /\ UNCHANGED <<kind, latest, queue, delivered, ctimed, watchVars, otherVars>>

\* what the awaited command does with a transport failure: _publish_command
\* catches it and returns False; base_component.execute_command lets it through
CommandRaises(k, ok) == k = "unified" /\ ~ok

\* the awaited command comes back (ok: the transport took it), and the call
\* reaches asyncio.wait_for(event.wait(), timeout)
ExecCommandReturns(c, ok) ==
    /\ cpc[c] = "publishing"
    /\ IF CommandRaises(kind, ok)
       THEN /\ cpc' = [cpc EXCEPT ![c] = "raised"]
            /\ cres' = [cres EXCEPT ![c] = ResRaised]
       ELSE IF event
       THEN /\ cpc' = [cpc EXCEPT ![c] = "done"]
            /\ cres' = [cres EXCEPT ![c] = ResValue(latest)]
       ELSE /\ cpc' = [cpc EXCEPT ![c] = "waiting"]
            /\ cres' = cres
    /\ UNCHANGED <<proxyVars, cop, ctimed, creplied, ccalls, csince, watchVars, otherVars>>

\* the wait was resumed by event.set(): return get_latest_status(status)
ExecResume(c) ==
    /\ cpc[c] = "woken"
    /\ cop[c] = "exec"
    /\ cpc' = [cpc EXCEPT ![c] = "done"]
    /\ cres' = [cres EXCEPT ![c] = ResValue(latest)]
    /\ UNCHANGED <<proxyVars, cop, ctimed, creplied, ccalls, csince, watchVars, otherVars>>

\* asyncio.TimeoutError: return None
ExecTimeout(c) ==
    /\ cpc[c] = "waiting"
    /\ cop[c] = "exec"
    /\ cpc' = [cpc EXCEPT ![c] = "done"]
    /\ cres' = [cres EXCEPT ![c] = ResNone]
    /\ UNCHANGED <<proxyVars, cop, ctimed, creplied, ccalls, csince, watchVars, otherVars>>

\* wait_for_status up to its suspension: clear, then wait on the event.
\* timed is "if timeout:", false for None and for 0.
WaitBegin(c, timed) ==
    /\ cpc[c] = "idle"
    /\ ccalls[c] < MaxCalls
    /\ event' = EventClear(event)
    /\ IF event'
       THEN /\ cpc' = [cpc EXCEPT ![c] = "done"]
            /\ cres' = [cres EXCEPT ![c] = ResTrue]
       ELSE /\ cpc' = [cpc EXCEPT ![c] = "waiting"]
            /\ cres' = [cres EXCEPT ![c] = Unset]
    /\ cop' = [cop EXCEPT ![c] = "wait"]
    /\ ctimed' = [ctimed EXCEPT ![c] = timed]
    /\ creplied' = [creplied EXCEPT ![c] = FALSE]
    /\ ccalls' = [ccalls EXCEPT ![c] = @ + 1]
    /\ csince' = [csince EXCEPT ![c] = delivered]
    /\ UNCHANGED <<kind, latest, queue, delivered, watchVars, otherVars>>

WaitResume(c) ==
    /\ cpc[c] = "woken"
    /\ cop[c] = "wait"
    /\ cpc' = [cpc EXCEPT ![c] = "done"]
    /\ cres' = [cres EXCEPT ![c] = ResTrue]
    /\ UNCHANGED <<proxyVars, cop, ctimed, creplied, ccalls, csince, watchVars, otherVars>>

WaitTimeout(c) ==
    /\ cpc[c] = "waiting"
    /\ cop[c] = "wait"
    /\ ctimed[c]
    /\ cpc' = [cpc EXCEPT ![c] = "done"]
    /\ cres' = [cres EXCEPT ![c] = ResFalse]
    /\ UNCHANGED <<proxyVars, cop, ctimed, creplied, ccalls, csince, watchVars, otherVars>>

\* the caller has its outcome and may call again
CallerReturn(c) ==
    /\ cpc[c] \in {"done", "raised"}
    /\ ccalls[c] < MaxCalls
    /\ cpc' = [cpc EXCEPT ![c] = "idle"]
    /\ UNCHANGED <<proxyVars, cop, ctimed, cres, creplied, ccalls, csince, watchVars, otherVars>>

Init ==
    /\ ProxyInit /\ CallersIdle /\ WatchersIdle /\ AnyIdle /\ CmdIdle /\ StateIdle
    /\ HeartbeatIdle
    /\ BulkIdle
    /\ AppNew
    /\ LookupIdle
    /\ CondIdle
    /\ PollIdle
    /\ DiscIdle
    /\ ChannelIdle
    /\ ContinuousIdle
    /\ RunLoopIdle
    /\ StinkIdle
    /\ TimedWaitIdle
    /\ ReconnectIdle

Next ==
    \/ Deliver
    \/ \E c \in Callers : ExecBegin(c)
    \/ \E c \in Callers, ok \in BOOLEAN : ExecCommandReturns(c, ok)
    \/ \E c \in Callers : ExecResume(c)
    \/ \E c \in Callers : ExecTimeout(c)
    \/ \E c \in Callers, timed \in BOOLEAN : WaitBegin(c, timed)
    \/ \E c \in Callers : WaitResume(c)
    \/ \E c \in Callers : WaitTimeout(c)
    \/ \E c \in Callers : CallerReturn(c)

Spec == Init /\ [][Next]_vars

\* ------------------------------------------------------ continuous watches
\* wait_for_continuous: a stop flag (async), a task, an id in the registry
WaitForContinuous(w) ==
    /\ wpc[w] = "none"
    /\ wpc' = [wpc EXCEPT ![w] = "top"]
    /\ wreg' = [wreg EXCEPT ![w] = TRUE]
    /\ wsince' = [wsince EXCEPT ![w] = delivered]
    /\ UNCHANGED <<proxyVars, callerVars, wstop, spc, calls, wafter, otherVars>>

\* top of the task's loop: "while not stop_flag.is_set()" (async, whose finally
\* forgets the id), "while True" (unified)
WatchLoopTop(w) ==
    /\ wpc[w] = "top"
    /\ IF kind = "async" /\ wstop[w]
       THEN /\ wpc' = [wpc EXCEPT ![w] = "done"]
            /\ wreg' = [wreg EXCEPT ![w] = FALSE]
       ELSE /\ wpc' = [wpc EXCEPT ![w] = "getting"]
            /\ wreg' = wreg
    /\ UNCHANGED <<proxyVars, callerVars, wstop, spc, calls, wsince, wafter, otherVars>>

\* asyncio.wait_for(queue.get(), timeout=1.0) hands the task the oldest queued
\* payload, and the task invokes the callback with it
WatchGet(w) ==
    /\ wpc[w] = "getting"
    /\ queue # <<>>
    /\ queue' = Tail(queue)
    /\ calls' = [calls EXCEPT ![w] = Append(@, Head(queue))]
    /\ wpc' = [wpc EXCEPT ![w] = "calling"]
    /\ UNCHANGED <<kind, event, latest, delivered, callerVars, wstop, wreg, spc, wsince, wafter, otherVars>>

\* the 1 s timeout of the get: asyncio.TimeoutError, back to the top of the loop
WatchGetTimeout(w) ==
    /\ wpc[w] = "getting"
    /\ wpc' = [wpc EXCEPT ![w] = "top"]
    /\ UNCHANGED <<proxyVars, callerVars, wstop, wreg, spc, calls, wsince, wafter, otherVars>>

\* the callback comes back; no stop_condition was given
WatchCallbackReturns(w) ==
    /\ wpc[w] = "calling"
    /\ wpc' = [wpc EXCEPT ![w] = "top"]
    /\ UNCHANGED <<proxyVars, callerVars, wstop, wreg, spc, calls, wsince, wafter, otherVars>>

\* what stop_continuous_wait waits for: asyncio.wait_for(task, 2.0) (async),
\* "await task" (unified)
TaskFinishedNoJoin(w) == TRUE
TaskFinished(w) == wpc[w] \in {"done", "cancelled"}

\* stop_continuous_wait up to its first suspension.  async: an id the registry
\* no longer holds returns at once, else the stop flag is set.  unified: an id
\* the registry no longer holds returns at once, else task.cancel(), which
\* throws CancelledError into the task at the await it is suspended in.
StopBegin(w) ==
    /\ spc[w] = "idle"
    /\ wpc[w] # "none"
    /\ IF ~wreg[w]
       THEN /\ spc' = [spc EXCEPT ![w] = "returned"]
            /\ UNCHANGED <<wstop, wpc>>
       ELSE IF kind = "async"
       THEN /\ spc' = [spc EXCEPT ![w] = "joining"]
            /\ wstop' = [wstop EXCEPT ![w] = TRUE]
            /\ wpc' = wpc
       ELSE /\ spc' = [spc EXCEPT ![w] = "joining"]
            /\ wstop' = wstop
            /\ wpc' = [wpc EXCEPT ![w] = "cancelled"]
    /\ UNCHANGED <<proxyVars, callerVars, wreg, calls, wsince, wafter, otherVars>>

\* the awaited task has finished: stop_continuous_wait returns (unified: after
\* "del self.continuous_listeners[wait_id]")
StopJoin(w) ==
    /\ spc[w] = "joining"
    /\ TaskFinished(w)
    /\ spc' = [spc EXCEPT ![w] = "returned"]
    /\ wreg' = [wreg EXCEPT ![w] = IF kind = "unified" THEN FALSE ELSE @]
    /\ UNCHANGED <<proxyVars, callerVars, wpc, wstop, calls, wsince, wafter, otherVars>>

\* the timeout of the wait for the task: wait_for(task, timeout=2.0) (async);
\* the unified "await task" has none
HasGracePeriodNever(k) == FALSE
HasGracePeriod(k) == k = "async"

\* async: the 2 s grace period ends first.  asyncio.wait_for cancels the task
\* and waits for the cancellation (the task's finally forgets the id) before it
\* raises TimeoutError; the task.cancel() that follows finds a finished task.
StopGrace(w) ==
    /\ HasGracePeriod(kind)
    /\ spc[w] = "joining"
    /\ ~TaskFinished(w)
    /\ wpc' = [wpc EXCEPT ![w] = "cancelled"]
    /\ wreg' = [wreg EXCEPT ![w] = FALSE]
    /\ spc' = [spc EXCEPT ![w] = "returned"]
    /\ UNCHANGED <<proxyVars, callerVars, wstop, calls, wsince, wafter, otherVars>>

WatchNext ==
    \/ Deliver
    \/ \E w \in Watchers : WaitForContinuous(w)
    \/ \E w \in Watchers : WatchLoopTop(w)
    \/ \E w \in Watchers : WatchGet(w)
    \/ \E w \in Watchers : WatchGetTimeout(w)
    \/ \E w \in Watchers : WatchCallbackReturns(w)
    \/ \E w \in Watchers : StopBegin(w)
    \/ \E w \in Watchers : StopJoin(w)
    \/ \E w \in Watchers : StopGrace(w)

WatchSpec == Init /\ [][WatchNext]_vars

\* the event loop resumes stop_continuous_wait when the task it awaits is done
\* or the timer of its wait_for fires; nothing is assumed about the watch task
\* or its callback
StopFairness == \A w \in Watchers : WF_vars(StopJoin(w) \/ StopGrace(w))

WatchStopSpec == Init /\ [][WatchNext]_vars /\ StopFairness

\* ------------------------------------------- claims on the continuous watches
\* the payloads delivered so far, in delivery order
DeliveredSoFar == [i \in 1..delivered |-> i]

\* C1: two watches active on the same status from before the first message each
\* have their callback invoked exactly once for every delivered message.
C1_FanOut ==
    (/\ \A w \in Watchers : wpc[w] = "getting" /\ wsince[w] = 0 /\ spc[w] = "idle"
     /\ queue = <<>>)
    => \A w \in Watchers : calls[w] = DeliveredSoFar

\* C2: once stop_continuous_wait(id) has returned, the callback of watch id is
\* not invoked again.
C2_NoCallbackAfterStop ==
    [][\A w \in Watchers : spc[w] = "returned" => calls'[w] = calls[w]]_vars

\* a watch that had been called back was stopped, and a status message was
\* delivered (and queued) after the stop returned
C2_Witness ==
    \E w \in Watchers :
        spc[w] = "returned" /\ calls[w] # <<>> /\ wafter[w] /\ queue # <<>>

\* ------------------------------------------------ claims on the one-shot calls
\* C3: execute_and_wait_for_status returns a value or None and never raises,
\* also when publishing or invoking the command fails at the transport.
C3_NeverRaises == \A c \in Callers : cpc[c] # "raised"

\* C4: a reply delivered after the command was issued and before the deadline
\* resolves execute_and_wait_for_status with a value, not None.
C4_ReplyResolves ==
    \A c \in Callers :
        (cop[c] = "exec" /\ cpc[c] = "done" /\ creplied[c]) => cres[c].tag = "value"

\* C5: when no status message is delivered between the start of
\* execute_and_wait_for_status and its deadline, the call is resumed by nothing
\* but the timeout and returns None, never a value cached before the call.
C5_NoReplyGivesNone ==
    \A c \in Callers :
        /\ (cop[c] = "exec" /\ cpc[c] = "woken") => creplied[c]
        /\ (cop[c] = "exec" /\ cpc[c] = "done" /\ ~creplied[c]) => cres[c] = ResNone

\* a call timed out with None although an earlier message had left a cached value
C5_Witness ==
    \E c \in Callers :
        /\ cop[c] = "exec" /\ cpc[c] = "done" /\ ~creplied[c]
        /\ cres[c] = ResNone /\ latest # None

\* C6: wait_for_status returns True exactly when a status message was delivered
\* after it cleared the flag and before its timeout, False when the timeout
\* came first, and it never raises.
C6_WaitForStatus ==
    \A c \in Callers :
        /\ cop[c] = "wait" => cpc[c] # "raised"
        /\ (cop[c] = "wait" /\ cpc[c] = "done") =>
              /\ cres[c] \in {ResTrue, ResFalse}
              /\ cres[c] = ResTrue <=> creplied[c]
              /\ cres[c] = ResFalse => ctimed[c]

\* one wait ended True on a delivery and another ended False on its timeout
C6_Witness ==
    \E c, d \in Callers :
        /\ cop[c] = "wait" /\ cpc[c] = "done" /\ cres[c] = ResTrue
        /\ cop[d] = "wait" /\ cpc[d] = "done" /\ cres[d] = ResFalse

\* ------------------------------------------------------ wait_for_any_status
baseVars == <<proxyVars, callerVars, watchVars, extraVars>>

\* status_callback of one pair: cache, queue, event.set().  A task waiting on
\* the event completes.
AnyDeliver(p) ==
    /\ acount < MaxAnyUpdates
    /\ acount' = acount + 1
    /\ alatest' = [alatest EXCEPT ![p] = acount + 1]
    /\ aflag' = [aflag EXCEPT ![p] = TRUE]
    /\ tk' = [tk EXCEPT ![p] = IF @ = "pending" THEN "done" ELSE @]
    /\ afirst' = IF apc = "waiting" /\ afirst = "" THEN p ELSE afirst
    /\ UNCHANGED <<apc, ares, acalls, baseVars, cmdVars, stateVars>>

\* clear_status_event, or the clear at the start of a one-shot wait on the pair
AnyClear(p) ==
    /\ aflag[p]
    /\ aflag' = [aflag EXCEPT ![p] = EventClear(aflag[p])]
    /\ UNCHANGED <<alatest, acount, tk, apc, ares, afirst, acalls, baseVars, cmdVars, stateVars>>

\* wait_for_any_status up to "await asyncio.wait(...)": one event.wait() task
\* per pair; no flag is cleared
AnyBegin ==
    /\ apc = "idle"
    /\ acalls < MaxAnyCalls
    /\ acalls' = acalls + 1
    /\ tk' = [p \in AnyPairs |-> "created"]
    /\ apc' = "waiting"
    /\ ares' = AnyUnset
    /\ afirst' = ""
    /\ UNCHANGED <<aflag, alatest, acount, baseVars, cmdVars, stateVars>>

\* first step of a created task: event.wait() returns at once on a set flag
AnyTaskStart(p) ==
    /\ tk[p] = "created"
    /\ tk' = [tk EXCEPT ![p] = IF aflag[p] THEN "done" ELSE "pending"]
    /\ UNCHANGED <<aflag, alatest, acount, apc, ares, afirst, acalls, baseVars, cmdVars, stateVars>>

\* "for task in pending: task.cancel()"
CancelPendingNone(t) == t
CancelPending(t) == [p \in DOMAIN t |-> IF t[p] = "pending" THEN "cancelling" ELSE t[p]]

\* asyncio.wait returned with a nonempty done set: the pending tasks are
\* cancelled and next(iter(done)) names the pair that is returned
AnyResume(p) ==
    /\ apc = "waiting"
    /\ \A r \in AnyPairs : tk[r] # "created"
    /\ tk[p] = "done"
    /\ tk' = CancelPending(tk)
    /\ ares' = AnyTuple(p, alatest[p])
    /\ apc' = "returned"
    /\ UNCHANGED <<aflag, alatest, acount, afirst, acalls, baseVars, cmdVars, stateVars>>

\* asyncio.wait returned at its timeout with an empty done set: return None
AnyTimeout ==
    /\ apc = "waiting"
    /\ \A r \in AnyPairs : tk[r] = "pending"
    /\ tk' = CancelPending(tk)
    /\ ares' = AnyNone
    /\ apc' = "returned"
    /\ UNCHANGED <<aflag, alatest, acount, afirst, acalls, baseVars, cmdVars, stateVars>>

\* the event loop throws CancelledError into a task whose cancel() was called
AnyCancelDelivered(p) ==
    /\ tk[p] = "cancelling"
    /\ tk' = [tk EXCEPT ![p] = "cancelled"]
    /\ UNCHANGED <<aflag, alatest, acount, apc, ares, afirst, acalls, baseVars, cmdVars, stateVars>>

\* the caller has the result and may call again
AnyReturn ==
    /\ apc = "returned"
    /\ acalls < MaxAnyCalls
    /\ apc' = "idle"
    /\ UNCHANGED <<aflag, alatest, acount, tk, ares, afirst, acalls, baseVars, cmdVars, stateVars>>

\* wait_for_any_status exists on AsyncDeviceProxy only
AnyInit == Init /\ kind = "async"

AnyNext ==
    \/ \E p \in AnyPairs : AnyDeliver(p)
    \/ \E p \in AnyPairs : AnyClear(p)
    \/ AnyBegin
    \/ \E p \in AnyPairs : AnyTaskStart(p)
    \/ \E p \in AnyPairs : AnyResume(p)
    \/ AnyTimeout
    \/ \E p \in AnyPairs : AnyCancelDelivered(p)
    \/ AnyReturn

AnySpec == AnyInit /\ [][AnyNext]_vars

\* C7: wait_for_any_status returns the tuple of the pair that is the first to
\* receive an update after the call began, and None when no pair receives an
\* update before the timeout.
C7_FirstUpdated ==
    apc = "returned" =>
        IF afirst = "" THEN ares = AnyNone
        ELSE ares.tag = "tuple" /\ ares.pair = afirst

\* C8: when wait_for_any_status has returned, with a tuple or with None, every
\* task it created has completed or has been cancelled (cancel() was called on
\* it): none is left waiting.
C8_NoTaskOutstanding ==
    apc = "returned" => \A p \in AnyPairs : tk[p] \in {"done", "cancelling", "cancelled"}

\* the call returned a tuple for one pair and cancelled the task of the other
C8_Witness ==
    /\ apc = "returned"
    /\ ares.tag = "tuple"
    /\ \E p \in AnyPairs : tk[p] \in {"cancelling", "cancelled"}

\* ---------------------------------------------------- AsyncCommandProcessor
cmdOthers == <<baseVars, anyVars, stateVars>>

\* "await self.command_queue.put(...)" on the unbounded queue
QueuePut(q, x) == Append(q, x)

\* add_command: the n-th call submits command n
AddCommand ==
    /\ submitted < MaxCmds
    /\ submitted' = submitted + 1
    /\ command_queue' = QueuePut(command_queue, submitted + 1)
    /\ UNCHANGED <<running, processor_task, lpc, lcur, lcancel, joining, started, cmdOthers>>

\* start_processing: returns at once when running, else sets running and
\* creates the _run_loop task
StartProcessing(l) ==
    /\ ~running
    /\ lpc[l] = "none"
    /\ \A m \in Loops : m < l => lpc[m] # "none"
    /\ running' = TRUE
    /\ lpc' = [lpc EXCEPT ![l] = "created"]
    /\ processor_task' = l
    /\ UNCHANGED <<command_queue, lcur, lcancel, joining, submitted, started, cmdOthers>>

\* stop_processing up to its suspension: returns at once when not running,
\* else clears running, and cancels and awaits the task processor_task names
\* when there is one that is not done
StopProcessing ==
    /\ running
    /\ running' = FALSE
    /\ IF processor_task # None /\ lpc[processor_task] # "ended"
       THEN /\ lcancel' = [lcancel EXCEPT ![processor_task] = TRUE]
            /\ joining' = joining \cup {processor_task}
            /\ processor_task' = processor_task
       ELSE /\ processor_task' = None
            /\ UNCHANGED <<lcancel, joining>>
    /\ UNCHANGED <<command_queue, lpc, lcur, submitted, started, cmdOthers>>

\* the awaited task has ended: "self.processor_task = None", and the stop returns
StopProcessingJoin(l) ==
    /\ l \in joining
    /\ lpc[l] = "ended"
    /\ joining' = joining \ {l}
    /\ processor_task' = None
    /\ UNCHANGED <<command_queue, running, lpc, lcur, lcancel, submitted, started, cmdOthers>>

\* "while self.running:" followed by the wait for a command
WhileRunning(r) == IF r THEN "getting" ELSE "ended"

\* first step of a created task
LoopStart(l) ==
    /\ lpc[l] = "created"
    /\ ~lcancel[l]
    /\ lpc' = [lpc EXCEPT ![l] = WhileRunning(running)]
    /\ UNCHANGED <<command_queue, running, processor_task, lcur, lcancel, joining, submitted, started, cmdOthers>>

\* wait_for(command_queue.get(), timeout) hands the task the oldest command.
\* wellformed: the pair unpacks and command is a string, so a handler branch is
\* entered; otherwise the outer "except Exception" sleeps 0.1 s.
LoopGet(l, wellformed) ==
    /\ lpc[l] = "getting"
    /\ ~lcancel[l]
    /\ command_queue # <<>>
    /\ command_queue' = Tail(command_queue)
    /\ IF wellformed
       THEN /\ lpc' = [lpc EXCEPT ![l] = "handling"]
            /\ lcur' = [lcur EXCEPT ![l] = Head(command_queue)]
            /\ started' = Append(started, Head(command_queue))
       ELSE /\ lpc' = [lpc EXCEPT ![l] = "sleeping"]
            /\ UNCHANGED <<lcur, started>>
    /\ UNCHANGED <<running, processor_task, lcancel, joining, submitted, cmdOthers>>

\* asyncio.TimeoutError on an empty queue: continue
LoopGetTimeout(l) ==
    /\ lpc[l] = "getting"
    /\ ~lcancel[l]
    /\ command_queue = <<>>
    /\ lpc' = [lpc EXCEPT ![l] = WhileRunning(running)]
    /\ UNCHANGED <<command_queue, running, processor_task, lcur, lcancel, joining, submitted, started, cmdOthers>>

\* the awaited handler comes back, or raises and its "except Exception" logs
\* it; task_done(), and the loop goes on
HandlerReturns(l, ok) ==
    /\ lpc[l] = "handling"
    /\ ~lcancel[l]
    /\ lpc' = [lpc EXCEPT ![l] = WhileRunning(running)]
    /\ lcur' = [lcur EXCEPT ![l] = None]
    /\ UNCHANGED <<command_queue, running, processor_task, lcancel, joining, submitted, started, cmdOthers>>

\* end of "await asyncio.sleep(0.1)" after an unexpected error
LoopSleepDone(l) ==
    /\ lpc[l] = "sleeping"
    /\ ~lcancel[l]
    /\ lpc' = [lpc EXCEPT ![l] = WhileRunning(running)]
    /\ UNCHANGED <<command_queue, running, processor_task, lcur, lcancel, joining, submitted, started, cmdOthers>>

\* CancelledError is thrown into the task at the await it is suspended in:
\* "except asyncio.CancelledError: break" (a handler's "except Exception" does
\* not catch it), and the task ends
LoopCancelled(l) ==
    /\ lcancel[l]
    /\ lpc[l] \in {"created", "getting", "handling", "sleeping"}
    /\ lpc' = [lpc EXCEPT ![l] = "ended"]
    /\ lcur' = [lcur EXCEPT ![l] = None]
    /\ lcancel' = [lcancel EXCEPT ![l] = FALSE]
    /\ UNCHANGED <<command_queue, running, processor_task, joining, submitted, started, cmdOthers>>

CmdInit == Init /\ kind = "async"

CmdNext ==
    \/ AddCommand
    \/ \E l \in Loops : StartProcessing(l)
    \/ StopProcessing
    \/ \E l \in Loops : StopProcessingJoin(l)
    \/ \E l \in Loops : LoopStart(l)
    \/ \E l \in Loops, wellformed \in BOOLEAN : LoopGet(l, wellformed)
    \/ \E l \in Loops : LoopGetTimeout(l)
    \/ \E l \in Loops, ok \in BOOLEAN : HandlerReturns(l, ok)
    \/ \E l \in Loops : LoopSleepDone(l)
    \/ \E l \in Loops : LoopCancelled(l)

CmdSpec == CmdInit /\ [][CmdNext]_vars

\* a loop task is inside the handler of command n and is not being cancelled
Handling(l, n) == lpc[l] = "handling" /\ lcur[l] = n /\ ~lcancel[l]

\* C9: commands are handled in submission order, and the handling of a command
\* does not start while the handling of a command submitted before it is still
\* going on.
C9_SubmissionOrder ==
    /\ \A i, j \in 1..Len(started) : i < j => started[i] < started[j]
    /\ \A l, m \in Loops : \A a, b \in 1..submitted :
          (Handling(l, a) /\ Handling(m, b)) => a = b

\* -------------------------------------------------------- AsyncStateManager
stateOthers == <<baseVars, anyVars, cmdVars>>

\* d[k] = v on a copy of dict d
DictSetDropped(d, k, v) == d
DictSet(d, k, v) == [x \in DOMAIN d \cup {k} |-> IF x = k THEN v ELSE d[x]]

\* {**d, **e}, d.update(e)
DictUpdate(d, e) == [x \in DOMAIN d \cup DOMAIN e |-> IF x \in DOMAIN e THEN e[x] ELSE d[x]]

\* get_all_states: {**self._external_states, **self._internal_states}
MergeStates(e, i) == DictUpdate(e, i)

GetAllStates == MergeStates(ext, internal)

\* the external_states / internal_states setters: "if value != self._..._states"
\* assigns and creates one update_state_queue task
SetterNotifyAlways(changed) ==
    /\ utasks' = utasks + 1
    /\ changes' = IF changed THEN changes + 1 ELSE changes
SetterNotify(changed) ==
    /\ utasks' = IF changed THEN utasks + 1 ELSE utasks
    /\ changes' = IF changed THEN changes + 1 ELSE changes

\* the path of the binding the refresh is at
RefreshPath == PathOrder[ridx]

\* the transport delivers a status message for a path: the proxy caches it,
\* queues it for the continuous watch of the state manager and sets the event
\* the refresh may be waiting on
StateDeliver(p) ==
    /\ scount < MaxStateUpdates
    /\ scount' = scount + 1
    /\ slatest' = [slatest EXCEPT ![p] = scount + 1]
    /\ sq' = [sq EXCEPT ![p] = AsyncStatusCallback(@, scount + 1)]
    /\ rwoken' = (rwoken \/ (rpc = "exec" /\ RefreshPath = p))
    /\ UNCHANGED <<ext, rpc, rmode, rnew, ridx, seen, rcount, streamVars, stateOthers>>

\* the event listener's status_callback, run by the continuous watch with the
\* oldest queued value: copy the dict, set the path, assign it
EventUpdate(p) ==
    /\ sq[p] # <<>>
    /\ sq' = [sq EXCEPT ![p] = Tail(@)]
    /\ ext' = DictSet(ext, p, Head(sq[p]))
    /\ seen' = [seen EXCEPT ![p] = Head(sq[p])]
    /\ SetterNotify(ext' # ext)
    /\ UNCHANGED <<slatest, scount, rpc, rmode, rnew, ridx, rwoken, rcount, stateOthers>>
    /\ UNCHANGED <<internal, lastset, state_queue, published, setcalls, dver>>

\* refresh_all_data / _refresh_stale_data up to the first
\* execute_and_wait_for_status of _refresh_device_data: an empty result dict
RefreshBegin(mode) ==
    /\ rpc = "idle"
    /\ rcount < MaxRefreshes
    /\ rcount' = rcount + 1
    /\ rmode' = mode
    /\ rnew' = EmptyDict
    /\ ridx' = 1
    /\ rwoken' = FALSE
    /\ rpc' = "exec"
    /\ UNCHANGED <<ext, slatest, sq, scount, seen, streamVars, stateOthers>>

\* execute_and_wait_for_status came back with v (None on timeout):
\* new_external_states[status_path] = v, then the next binding.  After the last
\* one _refresh_stale_data merges its dict into the snapshot without another
\* suspension, and refresh_all_data goes on to the heartbeat refresh.
RefreshStore(v) ==
    /\ rnew' = DictSet(rnew, RefreshPath, v)
    /\ rwoken' = FALSE
    /\ IF ridx < Len(PathOrder)
       THEN /\ ridx' = ridx + 1
            /\ rpc' = "exec"
            /\ ext' = ext
       ELSE /\ ridx' = ridx
            /\ IF rmode = "all"
               THEN /\ rpc' = "heartbeats"
                    /\ ext' = ext
               ELSE /\ rpc' = "idle"
                    /\ ext' = DictUpdate(ext, rnew')
    /\ SetterNotify(ext' # ext)
    /\ UNCHANGED <<internal, lastset, state_queue, published, setcalls, dver>>

\* the awaited status was delivered: the call returns get_latest_status
RefreshExecResume ==
    /\ rpc = "exec"
    /\ rwoken
    /\ RefreshStore(slatest[RefreshPath])
    /\ UNCHANGED <<slatest, sq, scount, rmode, seen, rcount, stateOthers>>

\* the 10 s timeout: the call returns None
RefreshExecTimeout ==
    /\ rpc = "exec"
    /\ ~rwoken
    /\ RefreshStore(None)
    /\ UNCHANGED <<slatest, sq, scount, rmode, seen, rcount, stateOthers>>

\* refresh_all_data after the heartbeat refresh:
\* "if new_external_states: self.external_states = new_external_states"
RefreshAllCommit ==
    /\ rpc = "heartbeats"
    /\ ext' = IF DOMAIN rnew # {} THEN rnew ELSE ext
    /\ rpc' = "idle"
    /\ SetterNotify(ext' # ext)
    /\ UNCHANGED <<slatest, sq, scount, rmode, rnew, ridx, rwoken, seen, rcount, stateOthers>>
    /\ UNCHANGED <<internal, lastset, state_queue, published, setcalls, dver>>

\* set_state(key, value): a copy of the internal dict with the key set goes
\* through the internal_states setter
SetState(k, v) ==
    /\ setcalls < MaxSets
    /\ setcalls' = setcalls + 1
    /\ internal' = DictSet(internal, k, v)
    /\ lastset' = DictSet(lastset, k, v)
    /\ SetterNotify(internal' # internal)
    /\ UNCHANGED <<ext, slatest, sq, scount, rpc, rmode, rnew, ridx, rwoken, seen, rcount>>
    /\ UNCHANGED <<state_queue, published, dver, stateOthers>>

\* "await self.state_queue.put(...)" on the unbounded change stream
StreamPutDropped(q, x) == q
StreamPut(q, x) == Append(q, x)

\* a created update_state_queue task runs: it puts get_all_states(), as it is
\* now, on the unbounded state_queue
UpdateStateQueue ==
    /\ utasks > 0
    /\ utasks' = utasks - 1
    /\ state_queue' = StreamPut(state_queue, [snap |-> GetAllStates, ver |-> changes])
    /\ published' = published + 1
    /\ UNCHANGED <<ext, slatest, sq, scount, rpc, rmode, rnew, ridx, rwoken, seen, rcount>>
    /\ UNCHANGED <<internal, lastset, changes, setcalls, dver, stateOthers>>

\* get_state_updates: the consumer's "await self.state_queue.get()"
GetStateUpdates ==
    /\ state_queue # <<>>
    /\ state_queue' = Tail(state_queue)
    /\ dver' = IF Head(state_queue).ver > dver THEN Head(state_queue).ver ELSE dver
    /\ UNCHANGED <<ext, slatest, sq, scount, rpc, rmode, rnew, ridx, rwoken, seen, rcount>>
    /\ UNCHANGED <<internal, lastset, utasks, changes, published, setcalls, stateOthers>>

StateInit == Init /\ kind = "async"

StateNext ==
    \/ \E p \in Paths : StateDeliver(p)
    \/ \E p \in Paths : EventUpdate(p)
    \/ \E mode \in {"all", "stale"} : RefreshBegin(mode)
    \/ RefreshExecResume
    \/ RefreshExecTimeout
    \/ RefreshAllCommit
    \/ \E k \in InternalKeys, v \in InternalValues : SetState(k, v)

StateSpec == StateInit /\ [][StateNext]_vars

\* the change stream of the state manager under event-driven updates and
\* set_state calls
StreamNext ==
    \/ \E p \in Paths : StateDeliver(p)
    \/ \E p \in Paths : EventUpdate(p)
    \/ \E k \in InternalKeys, v \in InternalValues : SetState(k, v)
    \/ UpdateStateQueue
    \/ GetStateUpdates

StreamSpec == StateInit /\ [][StreamNext]_vars

\* the event loop runs every task it was given, and the consumer of
\* get_state_updates keeps iterating
StreamFairness == WF_vars(UpdateStateQueue) /\ WF_vars(GetStateUpdates)

\* the change stream with the external updates of the first binding only
StreamLiveNext ==
    \/ StateDeliver(PathOrder[1])
    \/ EventUpdate(PathOrder[1])
    \/ \E k \in InternalKeys, v \in InternalValues : SetState(k, v)
    \/ UpdateStateQueue
    \/ GetStateUpdates

StreamLiveSpec == StateInit /\ [][StreamLiveNext]_vars /\ StreamFairness

\* C10: the snapshot value of a path is None or at least as new as the newest
\* value an event-driven update wrote for the path: a refresh does not put an
\* older value over it.
C10_NoLostUpdate ==
    \A p \in DOMAIN ext : ext[p] = None \/ ext[p] >= seen[p]

\* C11: get_all_states() has exactly the keys of the external and the internal
\* state, gives every internal key the value last set for it (set_state(K, V)
\* is read back as V), and gives every path its latest known value.
C11_SnapshotIsUnion ==
    /\ DOMAIN GetAllStates = DOMAIN ext \cup DOMAIN internal
    /\ \A k \in DOMAIN internal : internal[k] = lastset[k] /\ GetAllStates[k] = lastset[k]
    /\ \A p \in DOMAIN ext : GetAllStates[p] = None \/ GetAllStates[p] >= seen[p]

\* C12: every assignment that changes the snapshot creates exactly one
\* publication of a full merged snapshot on the change stream, and an
\* assignment that leaves it equal creates none.
C12_OnePublishPerChange ==
    /\ published + utasks = changes
    /\ \A i \in 1..Len(state_queue) :
          /\ InternalKeys \subseteq DOMAIN state_queue[i].snap
          /\ DOMAIN state_queue[i].snap \subseteq DOMAIN GetAllStates

\* of two set_state calls one left the snapshot as it was and the other changed
\* it, and one snapshot was published
C12_Witness ==
    /\ setcalls = 2 /\ scount = 0
    /\ changes = 1 /\ published = 1 /\ utasks = 0

\* C13: every change of the snapshot, by an external update or by set_state, is
\* eventually followed by the delivery on get_state_updates of a merged
\* snapshot taken at or after that change.
C13_ChangeDelivered ==
    \A n \in 1..(MaxStateUpdates + MaxSets) : (changes >= n) ~> (dver >= n)

\* a set_state change and an external change have both been delivered
C13_Witness ==
    /\ dver = changes /\ changes >= 2
    /\ internal # ConfigInternalState /\ DOMAIN ext # {}

\* C14: when a refresh_all_data pass completes, every declared status path is
\* in the snapshot with the value the pass received for it or with None, and
\* no later step takes a path out of the snapshot.
C14_BootstrapStoresEveryPath ==
    [][/\ (rpc = "heartbeats" /\ rpc' = "idle") =>
             \A p \in Paths : p \in DOMAIN ext' /\ ext'[p] = rnew[p]
       /\ (Paths \subseteq DOMAIN ext) => (Paths \subseteq DOMAIN ext')]_vars

\* a completed refresh_all_data pass left one path with a received value and
\* another with the None of a timeout
C14_Witness ==
    /\ rpc = "idle" /\ rmode = "all" /\ rcount = 1
    /\ Paths \subseteq DOMAIN ext
    /\ \E p, q \in Paths : ext[p] = None /\ ext[q] # None

\* ---------------------------------------------------------------- heartbeat
mainVars == <<proxyVars, callerVars, watchVars, anyVars, cmdVars, stateVars>>
hbOthers == <<mainVars, bulkVars, shutVars, lookupVars, condVars, pollVars, lateVars>>

\* start_continuous_refresh: "self.running = True"
HbStartRefresh ==
    /\ ~hrunning
    /\ hrunning' = TRUE
    /\ UNCHANGED <<hrec, hpc, hgot, hnew, hq, hlis, hreplies, hprobes, hbOthers>>

\* first step of the heartbeat_monitor_task that get_instance created, and
\* every later pass through "while self.running:"
HbListenerRuns(r) == IF r THEN "getting" ELSE "ended"

HbListenerStart ==
    /\ hlis = "created"
    /\ hlis' = HbListenerRuns(hrunning)
    /\ UNCHANGED <<hrunning, hrec, hpc, hgot, hnew, hq, hreplies, hprobes, hbOthers>>

\* a device of the namespace publishes on the heartbeat response topic: the
\* reply is queued for the monitor task and resolves a probe that is waiting
HbReply ==
    /\ hreplies < MaxReplies
    /\ hreplies' = hreplies + 1
    /\ hq' = hq + 1
    /\ hgot' = (hgot \/ hpc = "probing")
    /\ UNCHANGED <<hrunning, hrec, hpc, hnew, hlis, hprobes, hbOthers>>

\* heartbeat_callback, run by the monitor task with a queued reply: the
\* snapshot path takes the reply's record
HbListenerGet ==
    /\ hlis = "getting"
    /\ hq > 0
    /\ hq' = hq - 1
    /\ hrec' = "online"
    /\ hlis' = HbListenerRuns(hrunning)
    /\ UNCHANGED <<hrunning, hpc, hgot, hnew, hreplies, hprobes, hbOthers>>

\* _refresh_heartbeat_data: the probe is sent and the reply awaited
HbProbeBegin ==
    /\ hrunning
    /\ hpc = "idle"
    /\ hprobes < MaxProbes
    /\ hprobes' = hprobes + 1
    /\ hpc' = "probing"
    /\ hgot' = FALSE
    /\ hnew' = "none"
    /\ UNCHANGED <<hrunning, hrec, hq, hlis, hreplies, hbOthers>>

\* _refresh_single_heartbeat: what goes into new_states for a reply, for the
\* None of a timeout, and for an exception
HeartbeatRecordReplyOnly(outcome) ==
    IF outcome = "reply" THEN "online" ELSE "none"
HeartbeatRecord(outcome) ==
    IF outcome = "reply" THEN "online"
    ELSE IF outcome = "timeout" THEN "offline"
    ELSE "error"

\* execute_heartbeat_and_wait comes back: with the reply, with None at its
\* timeout when no reply came, or with an exception of the transport
HbProbeEnds(outcome) ==
    /\ hpc = "probing"
    /\ outcome = "reply" => hgot
    /\ outcome = "timeout" => ~hgot
    /\ hnew' = HeartbeatRecord(outcome)
    /\ hpc' = "collected"
    /\ UNCHANGED <<hrunning, hrec, hgot, hq, hlis, hreplies, hprobes, hbOthers>>

\* after the gather: "if new_states:" the records are merged into the snapshot
HbCommit ==
    /\ hpc = "collected"
    /\ hrec' = IF hnew # "none" THEN hnew ELSE hrec
    /\ hpc' = "idle"
    /\ UNCHANGED <<hrunning, hgot, hnew, hq, hlis, hreplies, hprobes, hbOthers>>

HeartbeatNext ==
    \/ HbStartRefresh
    \/ HbListenerStart
    \/ HbReply
    \/ HbListenerGet
    \/ HbProbeBegin
    \/ \E outcome \in {"reply", "timeout", "error"} : HbProbeEnds(outcome)
    \/ HbCommit

HeartbeatInit == Init /\ kind = "async"

HeartbeatSpec == HeartbeatInit /\ [][HeartbeatNext]_vars

bulkOthers == <<mainVars, hbVars, shutVars, lookupVars, condVars, pollVars, lateVars>>

\* refresh_all_data -> _refresh_component_data: one task per device is created
\* and the caller waits in the gather
BulkBegin ==
    /\ bmain = "idle"
    /\ bcount < MaxBulk
    /\ bcount' = bcount + 1
    /\ bmain' = "gathering"
    /\ btask' = [d \in Devices |-> "created"]
    /\ bidx' = [d \in Devices |-> 1]
    /\ bout' = [d \in Devices |-> [b \in Bindings |-> "unset"]]
    /\ bnew' = [d \in Devices |-> [b \in Bindings |-> "absent"]]
    /\ UNCHANGED <<bext, bulkOthers>>

\* _refresh_device_data, "for cmd_info in commands": the next binding's command
\* is sent and its status awaited, or the task returns
DeviceNext(d) ==
    /\ btask[d] \in {"created", "looping"}
    /\ btask' = [btask EXCEPT ![d] = IF bidx[d] > NumBindings THEN "done" ELSE "waiting"]
    /\ UNCHANGED <<bmain, bcount, bidx, bout, bnew, bext, bulkOthers>>

\* what a binding leaves in new_external_states: the status data, or None when
\* the wait timed out or the command raised
BindingStored(outcome) == IF outcome = "reply" THEN "data" ELSE "none"

\* the "except Exception" inside the loop body: the task goes on with the next
\* binding whatever the outcome was
AfterBindingEscapes(outcome) == IF outcome = "raises" THEN "failed" ELSE "looping"
AfterBinding(outcome) == "looping"

\* execute_and_wait_for_status comes back with data, with None after its
\* timeout, or with an exception
DeviceBindingEnds(d, outcome) ==
    /\ btask[d] = "waiting"
    /\ bout' = [bout EXCEPT ![d][bidx[d]] = outcome]
    /\ btask' = [btask EXCEPT ![d] = AfterBinding(outcome)]
    /\ bnew' = IF btask'[d] = "failed" THEN bnew
               ELSE [bnew EXCEPT ![d][bidx[d]] = BindingStored(outcome)]
    /\ bidx' = [bidx EXCEPT ![d] = @ + 1]
    /\ UNCHANGED <<bmain, bcount, bext, bulkOthers>>

\* asyncio.gather(*tasks, return_exceptions=True) returns when every task has
\* finished, normally or with an exception
GatherDone == \A d \in Devices : btask[d] \in {"done", "failed"}

\* refresh_all_data after the gather: "if new_external_states:" it becomes the
\* external snapshot
BulkCommit ==
    /\ bmain = "gathering"
    /\ GatherDone
    /\ bext' = IF \E d \in Devices, b \in Bindings : bnew[d][b] # "absent"
               THEN bnew ELSE bext
    /\ bmain' = "idle"
    /\ UNCHANGED <<bcount, btask, bidx, bout, bnew, bulkOthers>>

BulkNext ==
    \/ BulkBegin
    \/ \E d \in Devices : DeviceNext(d)
    \/ \E d \in Devices, outcome \in {"reply", "timeout", "raises"} :
          DeviceBindingEnds(d, outcome)
    \/ BulkCommit

BulkInit == Init /\ kind = "async"

BulkSpec == BulkInit /\ [][BulkNext]_vars

BindingFailed(d) == \E b \in Bindings : bout[d][b] \in {"timeout", "raises"}

\* C16: when a bulk refresh has finished, every device other than one whose
\* command raised or whose reply never came had all its bindings refreshed and
\* their results stored; and while the refresh runs, a device's task that is
\* waiting for a binding can go on whatever the other devices' tasks do.
C16_FailureIsolated ==
    /\ (bmain = "idle" /\ bcount > 0) =>
          \A d \in Devices, e \in Devices :
             (e # d /\ BindingFailed(d)) =>
                \A b \in Bindings :
                   /\ bout[e][b] # "unset"
                   /\ bext[e][b] = (IF bout[e][b] = "reply" THEN "data" ELSE "none")
    /\ \A e \in Devices :
          btask[e] = "waiting" => ENABLED DeviceBindingEnds(e, "reply")

\* a refresh finished in which d1's command raised and d2's never got a reply,
\* and both devices' other bindings were stored
C16_Witness ==
    /\ bmain = "idle" /\ bcount > 0
    /\ bout["d1"][1] = "raises" /\ bout["d2"][1] = "timeout"
    /\ bext["d1"][2] = "data" /\ bext["d2"][2] = "data"

\* ------------------------------------------------------- start and shutdown
shutOthers == <<mainVars, hbVars, bulkVars, lookupVars, condVars, pollVars, lateVars>>

\* AsyncThermostatApp.initialize: the controller connects, get_instance builds
\* the state manager and starts its event listeners and heartbeat monitor, then
\* the command processor is constructed; its constructor raises on a missing
\* configuration and initialize re-raises
AppInitialize(ok) ==
    /\ aphase = "new"
    /\ transport' = "open"
    /\ ltask' = [l \in Listeners |-> "waiting"]
    /\ mtask' = "created"
    /\ aphase' = IF ok THEN "initialized" ELSE "failed"
    /\ UNCHANGED <<smrunning, lflag, lgot, ljoin, rtask, shutOthers>>

\* start_background_tasks -> start_continuous_refresh
AppStart ==
    /\ aphase = "initialized"
    /\ smrunning' = TRUE
    /\ rtask' = "sleeping"
    /\ aphase' = "serving"
    /\ UNCHANGED <<ltask, lflag, lgot, ljoin, mtask, transport, shutOthers>>

\* a watch task gets an update and runs the state manager's callback
ListenerUpdate(l) ==
    /\ ltask[l] = "waiting"
    /\ transport = "open"
    /\ ltask' = [ltask EXCEPT ![l] = "callback"]
    /\ UNCHANGED <<aphase, smrunning, lflag, lgot, ljoin, mtask, rtask, transport, shutOthers>>

\* the watch loop's "while not stop_flag.is_set()"
ListenerLoops(flag) == IF flag THEN "finished" ELSE "waiting"

ListenerCallbackReturns(l) ==
    /\ ltask[l] = "callback"
    /\ ltask' = [ltask EXCEPT ![l] = ListenerLoops(lflag[l])]
    /\ lgot' = [lgot EXCEPT ![l] = TRUE]
    /\ UNCHANGED <<aphase, smrunning, lflag, ljoin, mtask, rtask, transport, shutOthers>>

\* the watch loop's one-second timeout with the stop flag set
ListenerTimeout(l) ==
    /\ ltask[l] = "waiting"
    /\ lflag[l]
    /\ ltask' = [ltask EXCEPT ![l] = ListenerLoops(lflag[l])]
    /\ UNCHANGED <<aphase, smrunning, lflag, lgot, ljoin, mtask, rtask, transport, shutOthers>>

\* heartbeat_monitor_task: "while self.running:" around a one-second get
MonitorLoops ==
    /\ mtask \in {"created", "getting"}
    /\ mtask' = IF smrunning THEN "getting" ELSE "finished"
    /\ mtask' # mtask
    /\ UNCHANGED <<aphase, smrunning, ltask, lflag, lgot, ljoin, rtask, transport, shutOthers>>

\* _periodic_refresh_loop between its sleep and its refresh
RefreshLoops ==
    /\ rtask \in {"sleeping", "refreshing"}
    /\ rtask' = IF rtask = "sleeping" THEN "refreshing" ELSE "sleeping"
    /\ UNCHANGED <<aphase, smrunning, ltask, lflag, lgot, ljoin, mtask, transport, shutOthers>>

\* run_app's finally -> shutdown; the emission task and the command processor
\* are stopped first
ShutdownBegin ==
    /\ aphase \in {"failed", "serving"}
    /\ aphase' = "stop_refresh"
    /\ UNCHANGED <<smrunning, ltask, lflag, lgot, ljoin, mtask, rtask, transport, shutOthers>>

\* stop_continuous_refresh: "if not self.running: return"
StopReturnsEarly(r) == ~r

\* stop_continuous_refresh up to the end of "await self.refresh_task"
StopContinuousRefresh ==
    /\ aphase = "stop_refresh"
    /\ IF StopReturnsEarly(smrunning)
       THEN /\ aphase' = "disconnect"
            /\ UNCHANGED <<smrunning, rtask>>
       ELSE /\ smrunning' = FALSE
            /\ rtask' = IF rtask = "none" THEN "none" ELSE "finished"
            /\ aphase' = "stop_listeners"
    /\ UNCHANGED <<ltask, lflag, lgot, ljoin, mtask, transport, shutOthers>>

\* stop_continuous_wait of the next listener: the stop flag is set and the
\* task awaited with the grace period
StopListenerBegin(l) ==
    /\ aphase = "stop_listeners"
    /\ ljoin = "none"
    /\ ~lflag[l]
    /\ lflag' = [lflag EXCEPT ![l] = TRUE]
    /\ ljoin' = l
    /\ UNCHANGED <<aphase, smrunning, ltask, lgot, mtask, rtask, transport, shutOthers>>

\* the awaited task has ended, or the grace period has: wait_for cancels the
\* task and waits until it is done
StopListenerEnd(l) ==
    /\ aphase = "stop_listeners"
    /\ ljoin = l
    /\ ltask' = [ltask EXCEPT ![l] = "finished"]
    /\ ljoin' = "none"
    /\ UNCHANGED <<aphase, smrunning, lflag, lgot, mtask, rtask, transport, shutOthers>>

\* the heartbeat monitor tasks are cancelled and awaited
StopMonitors ==
    /\ aphase = "stop_listeners"
    /\ ljoin = "none"
    /\ \A l \in Listeners : lflag[l]
    /\ mtask' = "finished"
    /\ aphase' = "disconnect"
    /\ UNCHANGED <<smrunning, ltask, lflag, lgot, ljoin, rtask, transport, shutOthers>>

\* controller.disconnect_all: every device manager's connection is closed
DisconnectAll ==
    /\ aphase = "disconnect"
    /\ transport' = "closed"
    /\ aphase' = "down"
    /\ UNCHANGED <<smrunning, ltask, lflag, lgot, ljoin, mtask, rtask, shutOthers>>

ShutdownNext ==
    \/ \E ok \in BOOLEAN : AppInitialize(ok)
    \/ AppStart
    \/ \E l \in Listeners : ListenerUpdate(l)
    \/ \E l \in Listeners : ListenerCallbackReturns(l)
    \/ \E l \in Listeners : ListenerTimeout(l)
    \/ MonitorLoops
    \/ RefreshLoops
    \/ ShutdownBegin
    \/ StopContinuousRefresh
    \/ \E l \in Listeners : StopListenerBegin(l)
    \/ \E l \in Listeners : StopListenerEnd(l)
    \/ StopMonitors
    \/ DisconnectAll

ShutdownInit == Init /\ kind = "async"

ShutdownSpec == ShutdownInit /\ [][ShutdownNext]_vars

\* C17: once the transport connection is closed, every event listener's watch
\* task, the heartbeat monitor and the periodic refresh loop have finished.
C17_TasksEndBeforeClose ==
    transport = "closed" =>
        /\ \A l \in Listeners : ltask[l] \in {"none", "finished"}
        /\ mtask \in {"none", "finished"}
        /\ rtask \in {"none", "finished"}

\* ------------------------------------------------------------ calls by name
lookupOthers == <<mainVars, hbVars, bulkVars, shutVars, condVars, pollVars, lateVars>>

\* the component's @command methods, for which _create_proxy_methods set a
\* publishing proxy method on the proxy object
CommandNames == {"read"}
\* the component's @status methods: the keys of status_events and status_queues
StatusNames == {"temp"}
\* what else getattr finds on the proxy object: its own coroutine methods that
\* can be called without arguments, and its plain attributes
ProxyCoroutines == {"stop_all_continuous_waits"}
ProxyFields == {"component_name"}
\* names the caller may pass
GivenNames == CommandNames \cup StatusNames \cup ProxyCoroutines \cup ProxyFields \cup {"bogus"}

\* "command_method = getattr(self, command_method_name)" followed by
\* "await command_method(**kwargs)"
CallByName(name) ==
    IF name \in CommandNames THEN "published"
    ELSE IF name \in ProxyCoroutines THEN "ran"
    ELSE IF name \in ProxyFields THEN "TypeError"
    ELSE "AttributeError"

\* execute_and_wait_for_status up to its wait for the status
ExecuteAndWaitForStatus(command, status) ==
    IF status \notin StatusNames THEN "ValueError"
    ELSE IF CallByName(command) \in {"published", "ran"} THEN "waiting"
    ELSE CallByName(command)

LookupExecute(command, status) ==
    /\ kcalls < MaxLookups
    /\ kcall.result # "waiting"
    /\ kcalls' = kcalls + 1
    /\ kbefore' = <<kpublished, ktasks>>
    /\ kcall' = [op |-> "execute_and_wait_for_status", command |-> command,
                 status |-> status, result |-> ExecuteAndWaitForStatus(command, status)]
    /\ kpublished' = IF status \in StatusNames /\ CallByName(command) = "published"
                     THEN kpublished + 1 ELSE kpublished
    /\ UNCHANGED <<ktasks, lookupOthers>>

\* wait_for_status
LookupWaitForStatus(status) ==
    /\ kcalls < MaxLookups
    /\ kcall.result # "waiting"
    /\ kcalls' = kcalls + 1
    /\ kbefore' = <<kpublished, ktasks>>
    /\ kcall' = [op |-> "wait_for_status", command |-> "none", status |-> status,
                 result |-> IF status \notin StatusNames THEN "ValueError" ELSE "waiting"]
    /\ UNCHANGED <<kpublished, ktasks, lookupOthers>>

\* wait_for_continuous: the task is created and the id returned
LookupWaitForContinuous(status) ==
    /\ kcalls < MaxLookups
    /\ kcall.result # "waiting"
    /\ kcalls' = kcalls + 1
    /\ kbefore' = <<kpublished, ktasks>>
    /\ kcall' = [op |-> "wait_for_continuous", command |-> "none", status |-> status,
                 result |-> IF status \notin StatusNames THEN "ValueError" ELSE "returned"]
    /\ ktasks' = IF status \in StatusNames THEN ktasks + 1 ELSE ktasks
    /\ UNCHANGED <<kpublished, lookupOthers>>

\* the awaited status arrives or the timeout ends the wait
LookupWaitEnds ==
    /\ kcall.result = "waiting"
    /\ kcall' = [kcall EXCEPT !.result = "returned"]
    /\ UNCHANGED <<kpublished, ktasks, kbefore, kcalls, lookupOthers>>

LookupNext ==
    \/ \E command \in GivenNames, status \in GivenNames : LookupExecute(command, status)
    \/ \E status \in GivenNames : LookupWaitForStatus(status)
    \/ \E status \in GivenNames : LookupWaitForContinuous(status)
    \/ LookupWaitEnds

LookupInit == Init /\ kind = "async"

LookupSpec == LookupInit /\ [][LookupNext]_vars

\* C18: a call that names a status the component does not have, or (for
\* execute_and_wait_for_status) a command it does not have, ends with a lookup
\* error raised to the caller, and it publishes no command and creates no
\* watch task.
C18_UnknownNameRaises ==
    (\/ (kcall.op # "none" /\ kcall.status \notin StatusNames)
     \/ (kcall.op = "execute_and_wait_for_status" /\ kcall.command \notin CommandNames))
    => /\ kcall.result \in {"ValueError", "AttributeError"}
       /\ kbefore = <<kpublished, ktasks>>

\* C19: a stop_continuous_wait that is waiting for its watch task returns, also
\* when the callback the task is in never comes back, and when it has returned
\* the task has exited or has been cancelled.
C19_StopReturns ==
    /\ \A w \in Watchers : (spc[w] = "joining") ~> (spc[w] = "returned")
    /\ [](\A w \in Watchers :
             spc[w] = "returned" => wpc[w] \in {"done", "cancelled"})

\* stop_continuous_wait is waiting with the stop flag set while the task is
\* inside its callback
C19_Witness ==
    kind = "async" /\ spc["w1"] = "joining" /\ wstop["w1"] /\ wpc["w1"] = "calling"

\* ------------------------------------------- a watch with a stop_condition
condOthers == <<mainVars, hbVars, bulkVars, shutVars, lookupVars, pollVars, lateVars>>

\* wait_for_continuous(status, callback, stop_condition): the task is created
CondWatchStart ==
    /\ cwpc = "none"
    /\ cwpc' = "top"
    /\ cwreg' = TRUE
    /\ UNCHANGED <<cwstop, cwcond, cwq, cwsent, cwcalls, cwspc, condOthers>>

\* the device publishes the status: the payload is queued for the watch
CondDeliver ==
    /\ cwsent < MaxCondUpdates
    /\ cwsent' = cwsent + 1
    /\ cwq' = cwq + 1
    /\ UNCHANGED <<cwpc, cwstop, cwcond, cwcalls, cwreg, cwspc, condOthers>>

\* the caller's stop_condition starts to return true
CondBecomesTrue ==
    /\ ~cwcond
    /\ cwcond' = TRUE
    /\ UNCHANGED <<cwpc, cwstop, cwq, cwsent, cwcalls, cwreg, cwspc, condOthers>>

\* stop_continuous_wait of the async proxy sets the watch's stop flag; the
\* unified proxy keeps no stop flag
CondStopFlagSet ==
    /\ kind = "async"
    /\ cwpc \notin {"none", "done"}
    /\ ~cwstop
    /\ cwstop' = TRUE
    /\ cwspc' = "joining"
    /\ UNCHANGED <<cwpc, cwcond, cwq, cwsent, cwcalls, cwreg, condOthers>>

\* the registry entry of the watch once its task has left the loop by itself:
\* the async task's "finally" deletes the id from continuous_waits and
\* continuous_wait_stop_flags, the unified task has no such clause
RegistryAfterExit(k, reg) == IF k = "async" THEN FALSE ELSE reg

\* "while not stop_flag.is_set():" (async), "while True:" (unified)
CondLoopTop ==
    /\ cwpc = "top"
    /\ cwpc' = IF kind = "async" /\ cwstop THEN "done" ELSE "getting"
    /\ cwreg' = IF kind = "async" /\ cwstop THEN RegistryAfterExit(kind, cwreg) ELSE cwreg
    /\ UNCHANGED <<cwstop, cwcond, cwq, cwsent, cwcalls, cwspc, condOthers>>

\* wait_for(queue.get(), timeout=1.0) returns a payload and the callback runs
CondGet ==
    /\ cwpc = "getting"
    /\ cwq > 0
    /\ cwq' = cwq - 1
    /\ cwpc' = "calling"
    /\ UNCHANGED <<cwstop, cwcond, cwsent, cwcalls, cwreg, cwspc, condOthers>>

\* where the loop goes on after asyncio.TimeoutError.  async: the except of
\* the inner try passes and the stop_condition check below it runs.  unified:
\* the check is inside the try, so the except passes to the next iteration.
AfterGetTimeout(k) == IF k = "async" THEN "checking" ELSE "top"

CondGetTimeout ==
    /\ cwpc = "getting"
    /\ cwq = 0
    /\ cwpc' = AfterGetTimeout(kind)
    /\ UNCHANGED <<cwstop, cwcond, cwq, cwsent, cwcalls, cwreg, cwspc, condOthers>>

\* the callback comes back
CondCallbackReturns ==
    /\ cwpc = "calling"
    /\ cwcalls' = cwcalls + 1
    /\ cwpc' = "checking"
    /\ UNCHANGED <<cwstop, cwcond, cwq, cwsent, cwreg, cwspc, condOthers>>

\* "if stop_condition and stop_condition(): break"
CondCheck ==
    /\ cwpc = "checking"
    /\ cwpc' = IF cwcond THEN "done" ELSE "top"
    /\ cwreg' = IF cwcond THEN RegistryAfterExit(kind, cwreg) ELSE cwreg
    /\ UNCHANGED <<cwstop, cwcond, cwq, cwsent, cwcalls, cwspc, condOthers>>

\* stop_continuous_wait of the unified proxy up to its suspension: an id the
\* registry holds has its task cancelled (CancelledError at the await the task
\* is suspended in, "except asyncio.CancelledError: break"; no effect on a
\* finished task), and the caller awaits the task
CondStopCancel ==
    /\ kind = "unified"
    /\ cwspc = "idle"
    /\ cwreg
    /\ cwpc' = "done"
    /\ cwspc' = "joining"
    /\ UNCHANGED <<cwstop, cwcond, cwq, cwsent, cwcalls, cwreg, condOthers>>

\* the awaited task has finished and stop_continuous_wait returns; unified:
\* after "del self.continuous_listeners[wait_id]"
CondStopJoin ==
    /\ cwspc = "joining"
    /\ cwpc = "done"
    /\ cwspc' = "returned"
    /\ cwreg' = IF kind = "unified" THEN FALSE ELSE cwreg
    /\ UNCHANGED <<cwpc, cwstop, cwcond, cwq, cwsent, cwcalls, condOthers>>

\* async: the 2 s of wait_for(task, timeout=2.0) end first; wait_for cancels
\* the task and waits for it (its finally forgets the id), then raises
\* TimeoutError and stop_continuous_wait returns
CondStopGrace ==
    /\ HasGracePeriod(kind)
    /\ cwspc = "joining"
    /\ cwpc # "done"
    /\ cwpc' = "done"
    /\ cwreg' = FALSE
    /\ cwspc' = "returned"
    /\ UNCHANGED <<cwstop, cwcond, cwq, cwsent, cwcalls, condOthers>>

CondNext ==
    \/ CondWatchStart
    \/ CondDeliver
    \/ CondBecomesTrue
    \/ CondStopFlagSet
    \/ CondLoopTop
    \/ CondGet
    \/ CondGetTimeout
    \/ CondCallbackReturns
    \/ CondCheck
    \/ CondStopCancel
    \/ CondStopJoin
    \/ CondStopGrace

\* the event loop runs the watch task whenever it can go on: its timers fire
\* and its callback comes back; no further delivery is assumed
CondFairness ==
    /\ WF_vars(CondLoopTop)
    /\ WF_vars(CondGet \/ CondGetTimeout)
    /\ WF_vars(CondCallbackReturns)
    /\ WF_vars(CondCheck)

CondSpec == Init /\ [][CondNext]_vars /\ CondFairness

\* C20: once a running watch's stop flag is set or its stop_condition returns
\* true, the watch task's loop exits, whether or not another update arrives.
C20_LoopExits ==
    (cwpc # "none" /\ (cwstop \/ cwcond)) ~> (cwpc = "done")

C22_OneEntryPerMessage ==
    (/\ wpc["w2"] = "none"
     /\ wpc["w1"] \in {"top", "getting", "calling"}
     /\ wsince["w1"] = 0)
    => calls["w1"] \o queue = DeliveredSoFar

\* ------------------------------------------------------------------------
\* PollSpec: one status of a pull component (ESPHomeComponentAdapter) behind
\* a UnifiedComponentProxy.  The status methods of the adapter are plain
\* functions, so a poll (read the cache, query, write the cache, compare,
\* emit) runs without suspension.
pollOthers == <<mainVars, hbVars, bulkVars, shutVars, lookupVars, condVars, lateVars>>

Values == 1..NumValues
Outcomes == {"ok", "failed"}

\* the device's value changes
DeviceChanges(v) ==
    /\ pchanges < MaxChanges
    /\ v # pdev
    /\ pdev' = v
    /\ pchanges' = pchanges + 1
    /\ UNCHANGED <<pcache, pemits, pevent, pq, ppc, pn, pwho, pout, pstat, pwseen, pwcalls, pwait, pwsince, pollOthers>>

\* ESPHomeComponentAdapter.supports_event_updates
SupportsEventUpdates == FALSE

\* _setup_status_monitoring: _handle_status_update is subscribed to the
\* component's updates only "if self.base_component.supports_event_updates()"
Subscribers == IF SupportsEventUpdates THEN {"proxy"} ELSE {}

\* "if new_value != old_value"
PollChangedAlways(old, new) == TRUE
PollChanged(old, new) == new # old

\* "except Exception as e: log; await asyncio.sleep(...)" of the three loops:
\* the loop goes on
AfterLoopErrorEnds(l) == "ended"
AfterLoopError(l) == "ready"

\* the bookkeeping of one iteration of polling task l: a failure is caught by
\* the loop's "except Exception"
LoopIteration(l, outcome) ==
    /\ ppc[l] = "ready"
    /\ pn < MaxPolls
    /\ pn' = pn + 1
    /\ pwho' = l
    /\ pout' = outcome
    /\ IF outcome = "ok"
       THEN /\ ppc' = ppc
            /\ pstat' = [pstat EXCEPT ![l] = IF @ = "failed" THEN "recovered" ELSE @]
       ELSE /\ ppc' = [ppc EXCEPT ![l] = AfterLoopError(l)]
            /\ pstat' = [pstat EXCEPT ![l] = "failed"]

\* one iteration of _poll_status: old_value from the cache, get_status (which
\* writes the cache), and _emit_status_update to the subscribers on a change
PollStatus(outcome) ==
    /\ LoopIteration("poll", outcome)
    /\ IF outcome = "ok"
       THEN /\ pcache' = pdev
            /\ IF PollChanged(pcache, pdev)
               THEN /\ pemits' = Append(pemits, pdev)
                    /\ pevent' = (pevent \/ "proxy" \in Subscribers)
                    /\ pq' = IF "proxy" \in Subscribers
                             THEN HandleStatusUpdate(pq, pdev) ELSE pq
               ELSE UNCHANGED <<pemits, pevent, pq>>
       ELSE UNCHANGED <<pcache, pemits, pevent, pq>>
    /\ UNCHANGED <<pdev, pchanges, pwseen, pwcalls, pwait, pwsince, pollOthers>>

\* UnifiedComponentProxy.wait_for_continuous on the pull component: the
\* polling task is created
PollWatchStart(w) ==
    /\ ppc[w] = "none"
    /\ ppc' = [ppc EXCEPT ![w] = "ready"]
    /\ UNCHANGED <<pdev, pchanges, pcache, pemits, pevent, pq, pn, pwho, pout, pstat, pwseen, pwcalls, pwait, pwsince, pollOthers>>

\* one iteration of continuous_monitor's polling branch: old_value from
\* get_cached_status, get_status, and on a difference _handle_status_update and
\* the callback
PollWatchIteration(w, outcome) ==
    /\ LoopIteration(w, outcome)
    /\ IF outcome = "ok"
       THEN /\ pcache' = pdev
            /\ pwseen' = [pwseen EXCEPT ![w] = pdev]
            /\ IF pdev # pcache
               THEN /\ pevent' = TRUE
                    /\ pq' = HandleStatusUpdate(pq, pdev)
                    /\ pwcalls' = [pwcalls EXCEPT ![w] = Append(@, pdev)]
               ELSE UNCHANGED <<pevent, pq, pwcalls>>
       ELSE UNCHANGED <<pcache, pwseen, pevent, pq, pwcalls>>
    /\ UNCHANGED <<pdev, pchanges, pemits, pwait, pwsince, pollOthers>>

\* UnifiedComponentProxy.wait_for_status: the flag is cleared and the caller
\* waits on it
PollWaitBegin ==
    /\ pwait = "idle"
    /\ pwait' = "waiting"
    /\ pevent' = EventClear(pevent)
    /\ pwsince' = Len(pemits)
    /\ UNCHANGED <<pdev, pchanges, pcache, pemits, pq, ppc, pn, pwho, pout, pstat, pwseen, pwcalls, pollOthers>>

\* the flag was set: "return True"
PollWaitResume ==
    /\ pwait = "waiting"
    /\ pevent
    /\ pwait' = "True"
    /\ UNCHANGED <<pdev, pchanges, pcache, pemits, pevent, pq, ppc, pn, pwho, pout,
                   pstat, pwseen, pwcalls, pwsince, pollOthers>>

\* "except asyncio.TimeoutError: return False"
PollWaitTimeout ==
    /\ pwait = "waiting"
    /\ ~pevent
    /\ pwait' = "False"
    /\ UNCHANGED <<pdev, pchanges, pcache, pemits, pevent, pq, ppc, pn, pwho, pout,
                   pstat, pwseen, pwcalls, pwsince, pollOthers>>

\* one iteration of _periodic_refresh_loop: _refresh_stale_data reaches
\* execute_and_wait_for_status, which clears the flag and for a polling
\* component returns get_status (and so writes the cache)
PeriodicRefreshIteration(outcome) ==
    /\ LoopIteration("refresh", outcome)
    /\ IF outcome = "ok"
       THEN /\ pcache' = pdev
            /\ pevent' = EventClear(pevent)
       ELSE UNCHANGED <<pcache, pevent>>
    /\ UNCHANGED <<pdev, pchanges, pemits, pq, pwseen, pwcalls, pwait, pwsince,
                   pollOthers>>

PollNext ==
    \/ \E v \in Values : DeviceChanges(v)
    \/ \E o \in Outcomes : PollStatus(o)
    \/ \E w \in Watchers : PollWatchStart(w)
    \/ \E w \in Watchers, o \in Outcomes : PollWatchIteration(w, o)
    \/ PollWaitBegin
    \/ PollWaitResume
    \/ PollWaitTimeout
    \/ \E o \in Outcomes : PeriodicRefreshIteration(o)

PollInit == Init /\ kind = "unified"

PollSpec == PollInit /\ [][PollNext]_vars

\* C23: when the adapter's poll loop has emitted a change while a
\* wait_for_status call was pending, the proxy's status event is set and the
\* emitted value is on the proxy's status queue, so that call does not end
\* with False.
C23_PollPropagates ==
    (pwait \in {"waiting", "False"} /\ Len(pemits) > pwsince) =>
        /\ pwait = "waiting"
        /\ pevent
        /\ \E i \in 1..Len(pq) : pq[i] = pemits[Len(pemits)]

\* C24: a successful poll of a polling watch that is not the watch's first
\* invokes the callback with the polled value when that value differs from the
\* value of the watch's previous poll, and does not invoke it otherwise.
C24_CallbackOnChange ==
    [][\A w \in Watchers :
          (pn' = pn + 1 /\ pwho' = w /\ pout' = "ok" /\ pwseen[w] # None) =>
              pwcalls'[w] = IF pdev # pwseen[w]
                            THEN Append(pwcalls[w], pdev) ELSE pwcalls[w]]_vars

\* C25: a successful poll of the adapter's poll loop emits nothing when the
\* queried value equals the cached one, and emits exactly the queried value,
\* once, when it differs.
C25_EmitOnChange ==
    [][(pn' = pn + 1 /\ pwho' = "poll" /\ pout' = "ok") =>
          pemits' = IF pdev # pcache THEN Append(pemits, pdev) ELSE pemits]_vars

\* the poll loop alone polled twice without a failure and emitted once: one
\* poll found a difference, the other found none
C25_Witness ==
    /\ pn = 2 /\ pwho = "poll" /\ pout = "ok" /\ pstat["poll"] = "none"
    /\ ppc["w1"] = "none" /\ ppc["w2"] = "none"
    /\ pcache = 1
    /\ pemits = <<1>>

\* C29: a failure raised inside the adapter's poll loop, a polling watch or the
\* periodic refresh loop does not end the loop.
C29_LoopsSurviveFailures ==
    \A l \in PollLoops : ppc[l] # "ended"

\* the poll loop and a watch each made an iteration that failed and a later
\* one that succeeded, and the refresh loop is ready to go on after a failure
C29_Witness ==
    /\ pstat["poll"] = "recovered"
    /\ pstat["w1"] = "recovered"
    /\ pstat["refresh"] = "failed" /\ ppc["refresh"] = "ready"

\* C26: the arrival of a status message of a push component leaves the flag
\* set, the payload last on the status queue and the cache holding the payload;
\* and whenever a waiter has been resumed by the flag, the cache holds the
\* payload of a message that arrived after the waiter's call cleared the flag.
C26_FullyUpdated ==
    [][/\ (delivered' = delivered + 1) =>
              /\ event'
              /\ latest' = delivered'
              /\ Len(queue') > 0
              /\ queue'[Len(queue')] = delivered'
       /\ \A c \in Callers :
              cpc'[c] = "woken" => (latest' # None /\ latest' > csince'[c])]_vars

\* a wait_for_status call that began after the first message was resumed by
\* the second, with the flag set and the second payload cached and queued
C26_Witness ==
    \E c \in Callers :
        /\ cop[c] = "wait" /\ cpc[c] = "woken" /\ csince[c] = 1
        /\ event /\ latest = 2 /\ queue[Len(queue)] = 2

\* ------------------------------------------------------------------------
\* QueueSpec: the status queue of one status of a push component while
\* MaxArrivals messages arrive, with and without a consumer taking items.

\* the status handler of the proxy runs for the next message; no one-shot
\* caller is waiting
StatusArrives ==
    /\ delivered < MaxArrivals
    /\ delivered' = delivered + 1
    /\ latest' = delivered + 1
    /\ queue' = IF kind = "async" THEN AsyncStatusCallback(queue, delivered + 1)
                ELSE UnifiedMqttCallback(queue, delivered + 1)
    /\ event' = TRUE
    /\ UNCHANGED <<kind, callerVars, watchVars, otherVars>>

\* "await queue.get()" of a consumer of the status queue
StatusTaken ==
    /\ queue # <<>>
    /\ queue' = Tail(queue)
    /\ UNCHANGED <<kind, event, latest, delivered, callerVars, watchVars, otherVars>>

QueueNext == StatusArrives \/ StatusTaken

QueueInit == Init

QueueSpec == QueueInit /\ [][QueueNext]_vars

\* C27: the status queue never holds more items than the bound of a status
\* queue, and a message that arrives while the queue holds that many drops the
\* oldest item and is queued last.
C27_QueueBounded ==
    [][/\ Len(queue') <= UnifiedQueueMax
       /\ (delivered' = delivered + 1 /\ Len(queue) = UnifiedQueueMax) =>
              /\ queue'[Len(queue')] = delivered'
              /\ queue[1] # queue'[1]]_vars

\* C28: at every moment at most one _run_loop task that has not been cancelled
\* is alive to take commands from the command queue.
C28_OneConsumer ==
    Cardinality({l \in Loops :
                    /\ lpc[l] \in {"created", "getting", "handling", "sleeping"}
                    /\ ~lcancel[l]}) <= 1

\* C30: once stop_continuous_wait on a watch has returned, or the watch's loop
\* has exited on its own stop_condition with no stop requested, the proxy's
\* registry no longer holds the watch's id and its task has finished.
C30_WatchDestroyed ==
    ((cwpc = "done" /\ cwspc = "idle") \/ cwspc = "returned") =>
        (~cwreg /\ cwpc = "done")

\* ------------------------------------------------------------------------
discOthers == <<mainVars, hbVars, bulkVars, shutVars, lookupVars, condVars, pollVars, hbchVars, contVars, hlVars, skVars, twVars, rcVars>>

\* DiscoverSpec: one component class with one data command and two status
\* methods, inspected by the three discoverers of the repository.

\* the status methods of the class in the order dir() lists them
StatusOrder == <<"s1", "s2">>
Statuses == {StatusOrder[i] : i \in 1..Len(StatusOrder)}
Events == {"e1", "e2"}
Discoverers == {"inspector", "proxy", "adapter"}
EventLists == UNION {[1..n -> Events] : n \in 0..MaxEvents}

\* the decorators of the class body: @command(data_command=True, events=ev)
\* on the command and @status(trigger_on=tr[s]) on each status method
ComponentDeclared(ev, tr) ==
    /\ ~ddecl
    /\ ddecl' = TRUE
    /\ devents' = ev
    /\ dtrig' = tr
    /\ UNCHANGED <<dbound, ddone, discOthers>>

\* _find_status_method_for_event, and the inner loop of discover_data_methods:
\* the first status method in dir() order that triggers on the event, or None
FindStatusMethodForEvent(tr, e) ==
    IF \E i \in 1..Len(StatusOrder) : e \in tr[StatusOrder[i]]
    THEN StatusOrder[CHOOSE i \in 1..Len(StatusOrder) :
                        /\ e \in tr[StatusOrder[i]]
                        /\ \A j \in 1..(i - 1) : e \notin tr[StatusOrder[j]]]
    ELSE "None"

\* the statuses of the entries a list-building discoverer appends, one entry
\* per event (entries whose status is None bind nothing)
ListBindings(ev, tr) ==
    {FindStatusMethodForEvent(tr, ev[i]) : i \in 1..Len(ev)} \ {"None"}

\* MQTTComponentProxy._discover_methods: "self.data_commands[method_name] =
\* {..., 'status_method': status_method}" for every event with a status; the
\* entry of the command is overwritten, the last one stays
DictBindings(ev, tr) ==
    LET found == {i \in 1..Len(ev) : FindStatusMethodForEvent(tr, ev[i]) # "None"}
    IN  IF found = {} THEN {}
        ELSE {FindStatusMethodForEvent(tr, ev[CHOOSE i \in found : \A j \in found : j <= i])}

\* one discoverer inspects the class
Discover(i) ==
    /\ ddecl
    /\ i \notin ddone
    /\ ddone' = ddone \cup {i}
    /\ dbound' = [dbound EXCEPT ![i] = IF i = "proxy" THEN DictBindings(devents, dtrig)
                                       ELSE ListBindings(devents, dtrig)]
    /\ UNCHANGED <<ddecl, devents, dtrig, discOthers>>

DiscoverNext ==
    \/ \E ev \in EventLists, tr \in [Statuses -> SUBSET Events] : ComponentDeclared(ev, tr)
    \/ \E i \in Discoverers : Discover(i)

DiscoverInit == Init /\ kind = "async"

DiscoverSpec == DiscoverInit /\ [][DiscoverNext]_vars

\* the statuses linked to the command by a trigger event
LinkedStatuses == {s \in Statuses : \E i \in 1..Len(devents) : devents[i] \in dtrig[s]}

\* C31: every discoverer that has run bound the data command to exactly the
\* statuses of its class that trigger on one of the command's events.
C31_BindsEveryLinkedStatus ==
    \A i \in ddone : dbound[i] = LinkedStatuses /\ dbound[i] \subseteq Statuses

\* ------------------------------------------------------------------------
hbchOthers == <<mainVars, hbVars, bulkVars, shutVars, lookupVars, condVars, pollVars, discVars, contVars, hlVars, skVars, twVars, rcVars>>

\* ChannelSpec: ServerMQTTManager's heartbeat request and response topics.
\* The callbacks list changes between messages only.
HbCallbacks == {"cb1", "cb2"}
\* request_ids a response can carry: 0 is the device's "unknown", n the id of
\* the n-th probe
RequestIds == 0..MaxProbes

\* add_heartbeat_callback
AddHeartbeatCallback(c) ==
    /\ \A i \in 1..Len(hbcbs) : hbcbs[i] # c
    /\ hbcbs' = Append(hbcbs, c)
    /\ hbat' = [hbat EXCEPT ![c] = Len(hbmsgs)]
    /\ hbseen' = [hbseen EXCEPT ![c] = <<>>]
    /\ UNCHANGED <<hbsent, hbmsgs, hbchOthers>>

\* send_heartbeat: a fresh request_id is published and kept nowhere
SendHeartbeat ==
    /\ hbsent < MaxProbes
    /\ hbsent' = hbsent + 1
    /\ UNCHANGED <<hbcbs, hbmsgs, hbseen, hbat, hbchOthers>>

\* "if topic == self.heartbeat_response_topic:": what decides that a message
\* of the response topic is dispatched
AcceptsResponseMatching(rid, newest) == rid = newest
AcceptsResponse(rid, newest) == TRUE

\* _handle_message for a message of the response topic: every callback of the
\* list is called with the payload; a callback that raises is logged and the
\* loop goes on
HandleHeartbeatResponse(rid) ==
    /\ Len(hbmsgs) < MaxReplies
    /\ hbmsgs' = Append(hbmsgs, rid)
    /\ hbseen' = [c \in HbCallbacks |->
                    IF AcceptsResponse(rid, hbsent) /\ \E i \in 1..Len(hbcbs) : hbcbs[i] = c
                    THEN Append(hbseen[c], rid) ELSE hbseen[c]]
    /\ UNCHANGED <<hbsent, hbcbs, hbat, hbchOthers>>

ChannelNext ==
    \/ \E c \in HbCallbacks : AddHeartbeatCallback(c)
    \/ SendHeartbeat
    \/ \E rid \in RequestIds : HandleHeartbeatResponse(rid)

ChannelInit == Init /\ kind = "async"

ChannelSpec == ChannelInit /\ [][ChannelNext]_vars

C33_OneReplyOneCall ==
    \A c, d \in Callers :
        (/\ c # d
         /\ cop[c] = "exec" /\ cpc[c] = "done" /\ cres[c].tag = "value"
         /\ cop[d] = "exec" /\ cpc[d] = "done" /\ cres[d].tag = "value")
        => cres[c].v # cres[d].v

\* ------------------------------------------------------------------------
contOthers == <<mainVars, hbVars, bulkVars, shutVars, lookupVars, condVars, pollVars, discVars, hbchVars, hlVars, skVars, twVars, rcVars>>

\* ---------------------------------------- starting and stopping the refresh
\* loop tasks that have been created, have not ended and are not about to end
\* by a cancellation already requested
ActiveLoops ==
    {t \in LoopTasks : crloop[t] \in {"created", "refreshing", "sleeping"} /\ t \notin crcancel}

\* loop tasks that have begun to run, have not ended and have no cancellation
\* requested
RunningLoops == {t \in ActiveLoops : crloop[t] \in {"refreshing", "sleeping"}}

\* the task the next asyncio.create_task(self._periodic_refresh_loop()) makes
NewLoopTask == Cardinality({t \in LoopTasks : crloop[t] # "none"}) + 1

\* start_continuous_refresh up to "await self.refresh_all_data()"
ContinuousStart(c) ==
    /\ crpc[c] = "idle"
    /\ crstarts < MaxStarts
    /\ crstarts' = crstarts + 1
    /\ IF crun
       THEN UNCHANGED <<crun, crpc>>
       ELSE /\ crun' = TRUE
            /\ crpc' = [crpc EXCEPT ![c] = "bootstrap"]
    /\ UNCHANGED <<crtask, crloop, crcancel, cridx, crlis, crreg, crleft, contOthers>>

\* the bootstrap refresh has returned: the loop task is created and stored
ContinuousStartResume(c) ==
    /\ crpc[c] = "bootstrap"
    /\ crloop' = [crloop EXCEPT ![NewLoopTask] = "created"]
    /\ crtask' = NewLoopTask
    /\ crpc' = [crpc EXCEPT ![c] = "idle"]
    /\ UNCHANGED <<crun, crcancel, cridx, crlis, crreg, crstarts, crleft, contOthers>>

\* the first listener at or after position i that stop_continuous_wait has to
\* await; NumBindings + 1 when there is none
NextAwaited(i, lis, reg) ==
    IF \E b \in reg : b >= i /\ lis[b] # "ended"
    THEN CHOOSE b \in reg : /\ b >= i /\ lis[b] # "ended"
                            /\ \A d \in reg : (d >= i /\ lis[d] # "ended") => b <= d
    ELSE NumBindings + 1

\* the "for ... in self.event_listeners.items()" loop of stop_continuous_refresh
\* from position i to its next suspension, or to the end of the call
StopListenersFrom(c, i) ==
    LET b == NextAwaited(i, crlis, crreg) IN
    IF b <= NumBindings
    THEN /\ crlis' = [crlis EXCEPT ![b] = "flagged"]
         /\ cridx' = [cridx EXCEPT ![c] = b]
         /\ crpc' = [crpc EXCEPT ![c] = "listener"]
         /\ UNCHANGED <<crreg, crtask, crleft>>
    ELSE /\ crreg' = {}
         /\ crtask' = 0
         /\ crpc' = [crpc EXCEPT ![c] = "idle"]
         /\ cridx' = [cridx EXCEPT ![c] = 0]
         /\ crleft' = RunningLoops
         /\ UNCHANGED crlis

\* stop_continuous_refresh up to its first suspension
ContinuousStop(c) ==
    /\ crpc[c] = "idle"
    /\ IF ~crun
       THEN /\ crleft' = RunningLoops
            /\ UNCHANGED <<crun, crtask, crloop, crcancel, crpc, cridx, crlis, crreg>>
       ELSE /\ crun' = FALSE
            /\ UNCHANGED crloop
            /\ IF crtask # 0 /\ crloop[crtask] \notin {"done", "cancelled"}
               THEN /\ crcancel' = crcancel \cup {crtask}
                    /\ crpc' = [crpc EXCEPT ![c] = "joining"]
                    /\ cridx' = [cridx EXCEPT ![c] = crtask]
                    /\ UNCHANGED <<crtask, crlis, crreg, crleft>>
               ELSE /\ StopListenersFrom(c, 1)
                    /\ UNCHANGED crcancel
    /\ UNCHANGED <<crstarts, contOthers>>

\* "await self.refresh_task" returns: the cancelled task has ended
ContinuousStopJoined(c) ==
    /\ crpc[c] = "joining"
    /\ crloop[cridx[c]] \in {"done", "cancelled"}
    /\ StopListenersFrom(c, 1)
    /\ UNCHANGED <<crun, crloop, crcancel, crstarts, contOthers>>

\* a continuous wait whose stop flag is set ends
ListenerEnds(b) ==
    /\ crlis[b] = "flagged"
    /\ crlis' = [crlis EXCEPT ![b] = "ended"]
    /\ UNCHANGED <<crun, crtask, crloop, crcancel, crpc, cridx, crreg, crstarts, crleft, contOthers>>

\* stop_continuous_wait returns to the listener loop; the dict iterator raises
\* when another call has cleared self.event_listeners meanwhile
ContinuousStopListener(c) ==
    /\ crpc[c] = "listener"
    /\ crlis[cridx[c]] = "ended"
    /\ IF crreg = {}
       THEN /\ crpc' = [crpc EXCEPT ![c] = "idle"]
            /\ cridx' = [cridx EXCEPT ![c] = 0]
            /\ UNCHANGED <<crlis, crreg, crtask, crleft>>
       ELSE StopListenersFrom(c, cridx[c] + 1)
    /\ UNCHANGED <<crun, crloop, crcancel, crstarts, contOthers>>

\* _periodic_refresh_loop tests "while self.running" on its first step and after
\* every sleep
PeriodicLoopIterate(t) ==
    /\ crloop[t] \in {"created", "sleeping"}
    /\ t \notin crcancel
    /\ crloop' = [crloop EXCEPT ![t] = IF crun THEN "refreshing" ELSE "done"]
    /\ UNCHANGED <<crun, crtask, crcancel, crpc, cridx, crlis, crreg, crstarts, crleft, contOthers>>

\* the refresh of one iteration is over and the loop sleeps
PeriodicLoopSleeps(t) ==
    /\ crloop[t] = "refreshing"
    /\ t \notin crcancel
    /\ crloop' = [crloop EXCEPT ![t] = "sleeping"]
    /\ UNCHANGED <<crun, crtask, crcancel, crpc, cridx, crlis, crreg, crstarts, crleft, contOthers>>

\* CancelledError is raised in the loop task where it is suspended; it is not
\* an Exception, so the loop's handler does not catch it
PeriodicLoopCancelled(t) ==
    /\ t \in crcancel
    /\ crloop[t] \in {"created", "refreshing", "sleeping"}
    /\ crloop' = [crloop EXCEPT ![t] = "cancelled"]
    /\ UNCHANGED <<crun, crtask, crcancel, crpc, cridx, crlis, crreg, crstarts, crleft, contOthers>>

ContinuousNext ==
    \/ \E c \in RefreshCallers : ContinuousStart(c)
    \/ \E c \in RefreshCallers : ContinuousStartResume(c)
    \/ \E c \in RefreshCallers : ContinuousStop(c)
    \/ \E c \in RefreshCallers : ContinuousStopJoined(c)
    \/ \E b \in Bindings : ListenerEnds(b)
    \/ \E c \in RefreshCallers : ContinuousStopListener(c)
    \/ \E t \in LoopTasks : PeriodicLoopIterate(t)
    \/ \E t \in LoopTasks : PeriodicLoopSleeps(t)
    \/ \E t \in LoopTasks : PeriodicLoopCancelled(t)

ContinuousInit == Init /\ kind = "async"

ContinuousSpec == ContinuousInit /\ [][ContinuousNext]_vars

\* C34: at most one periodic refresh loop task is active at any time, and no
\* loop task is still active when stop_continuous_refresh returns.
C34_OneRefreshLoop ==
    /\ Cardinality(ActiveLoops) <= 1
    /\ crleft = {}

\* C35: while the state manager is running, every status binding has an
\* active event listener.
C35_ListenersWhileRunning ==
    crun => \A b \in Bindings : crlis[b] = "active"

\* ------------------------------------------------------------------------
hlOthers == <<mainVars, hbVars, bulkVars, shutVars, lookupVars, condVars, pollVars, discVars, hbchVars, contVars, skVars, twVars, rcVars>>

\* -------------------------------------------- handlers that raise in _run_loop
\* the command strings _run_loop tells apart; "NOTSTR" is a command that is not
\* a string, on which command.startswith raises
CommandKinds == {"DIRECT", "CONTROL", "MANUAL", "SET_TEMPERATURE", "PLACEHOLDER", "UNKNOWN", "NOTSTR"}

\* the branches that await a handler inside "try: ... except Exception"
AwaitedKinds == {"DIRECT", "CONTROL", "MANUAL", "SET_TEMPERATURE"}

\* add_command: the n-th call puts item n on the queue
SubmitCommand(k) ==
    /\ hlsub < MaxCmds
    /\ hlsub' = hlsub + 1
    /\ hlq' = QueuePut(hlq, [n |-> hlsub + 1, command |-> k])
    /\ UNCHANGED <<hlrun, hlpc, hlcur, hlexec, hlfail, hllog, hlOthers>>

\* where the loop goes once a handler's exception has been caught and logged
AfterHandlerErrorEnds(r) == "ended"
AfterHandlerError(r) == WhileRunning(r)

\* wait_for(command_queue.get()) returns an item and the loop dispatches on the
\* command string: a handler is awaited, or the command is printed and
\* task_done() called, or the outer "except Exception" logs and sleeps. (On an
\* empty queue the wait times out and the loop continues; running stays set
\* until the stop, so that step changes nothing.)
RunLoopTake ==
    /\ hlpc = "getting"
    /\ hlq # <<>>
    /\ hlq' = Tail(hlq)
    /\ hlexec' = Append(hlexec, Head(hlq).n)
    /\ IF Head(hlq).command \in AwaitedKinds
       THEN /\ hlpc' = "handling"
            /\ hlcur' = Head(hlq).n
            /\ UNCHANGED <<hlfail, hllog>>
       ELSE IF Head(hlq).command = "NOTSTR"
       THEN /\ hlpc' = "sleeping"
            /\ hlfail' = hlfail \cup {Head(hlq).n}
            /\ hllog' = hllog \cup {<<Head(hlq).n, "loop">>}
            /\ UNCHANGED hlcur
       ELSE /\ hlpc' = WhileRunning(hlrun)
            /\ UNCHANGED <<hlcur, hlfail, hllog>>
    /\ UNCHANGED <<hlrun, hlsub, hlOthers>>

\* the awaited handler returns, or raises: the branch's "except Exception"
\* logs the error; then task_done() and the next "while self.running"
RunLoopHandlerEnds(ok) ==
    /\ hlpc = "handling"
    /\ hlcur' = 0
    /\ IF ok
       THEN /\ hlpc' = WhileRunning(hlrun)
            /\ UNCHANGED <<hlfail, hllog>>
       ELSE /\ hlpc' = AfterHandlerError(hlrun)
            /\ hlfail' = hlfail \cup {hlcur}
            /\ hllog' = hllog \cup {<<hlcur, "handler">>}
    /\ UNCHANGED <<hlq, hlrun, hlsub, hlexec, hlOthers>>

\* end of "await asyncio.sleep(0.1)" in the outer handler
RunLoopSleepDone ==
    /\ hlpc = "sleeping"
    /\ hlpc' = WhileRunning(hlrun)
    /\ UNCHANGED <<hlq, hlrun, hlcur, hlsub, hlexec, hlfail, hllog, hlOthers>>

\* stop_processing: running is cleared, the task cancelled and awaited
RunLoopStopped ==
    /\ hlrun
    /\ hlrun' = FALSE
    /\ hlpc' = "ended"
    /\ hlcur' = 0
    /\ UNCHANGED <<hlq, hlsub, hlexec, hlfail, hllog, hlOthers>>

RunLoopNext ==
    \/ \E k \in CommandKinds : SubmitCommand(k)
    \/ RunLoopTake
    \/ \E ok \in BOOLEAN : RunLoopHandlerEnds(ok)
    \/ RunLoopSleepDone
    \/ RunLoopStopped

RunLoopInit == Init /\ kind = "async"

RunLoopSpec == RunLoopInit /\ [][RunLoopNext]_vars

\* C36: a handler that raises does not end the consumer loop (only a stop
\* does), its failure is logged, and the items submitted are dispatched in
\* submission order with none dropped: once the running loop waits on an empty
\* queue every submitted item has been dispatched.
C36_LoopSurvivesHandlerError ==
    /\ hlpc = "ended" => ~hlrun
    /\ \A n \in hlfail : \E w \in {"handler", "loop"} : <<n, w>> \in hllog
    /\ \A i \in 1..Len(hlexec) : hlexec[i] = i
    /\ hlrun => Len(hlexec) + Len(hlq) = hlsub
    /\ (hlrun /\ hlpc = "getting" /\ hlq = <<>>) => Len(hlexec) = hlsub

\* the handler of item 1 raised, and item 2 was dispatched after it
C36_Witness ==
    /\ hlrun
    /\ 1 \in hlfail
    /\ hlexec = <<1, 2>>
    /\ hlpc = "handling"

\* ------------------------------------------------------------------------
skOthers == <<mainVars, hbVars, bulkVars, shutVars, lookupVars, condVars, pollVars, discVars, hbchVars, contVars, hlVars, twVars, rcVars>>

\* ------------------------------------------------------------------ StinkMode
\* the tasks that run stink_mode_off: 0 is button_monitor's task, t is the
\* _auto_off_timer task the t-th stink_mode_on created
Timers == 1..MaxOns
OffRunners == {0} \cup Timers

\* the restore commands of stink_mode_off, in the order it awaits them
RestoreOrder == <<"bathroom_valve", "avery_valve", "fan", "light">>
RestoreCommands == {RestoreOrder[i] : i \in 1..Len(RestoreOrder)}

\* how an awaited device command can behave: it returns without suspending the
\* task, suspends it until the transport is done, or raises
AwaitOutcomes == {"returns", "suspends", "raises"}

\* "if self.timer_task and not self.timer_task.done()"
TimerPending(t) == t > 0 /\ sktimer[t] \in {"sleeping", "off"}

\* self.timer_task.cancel() called from the task r
TimerCancelledBy(c, t, r) ==
    IF TimerPending(t)
    THEN [c EXCEPT ![t] = IF r = t /\ c[t] # "other" THEN "self" ELSE "other"]
    ELSE c

\* stink_mode_on, called from button_monitor's task: the state is set, the
\* pending timer cancelled, a new timer task created and the settings applied
StinkModeOn ==
    /\ skpc[0] = 0
    /\ skons < MaxOns
    /\ skmode' = TRUE
    /\ skons' = skons + 1
    /\ skcancel' = TimerCancelledBy(skcancel, skons, 0)
    /\ sktimer' = [sktimer EXCEPT ![skons + 1] = "sleeping"]
    /\ UNCHANGED <<skpc, skissued, skOthers>>

\* stink_mode_off in task r up to its first device command: set_state does not
\* suspend, and the pending timer task is cancelled, also when r is that task
StinkModeOffBegin(r) ==
    /\ skpc[r] = 0
    /\ skmode' = FALSE
    /\ skcancel' = TimerCancelledBy(skcancel, skons, r)
    /\ skpc' = [skpc EXCEPT ![r] = 1]
    /\ skissued' = [skissued EXCEPT ![r] = {}]

\* the button is pressed while stink mode is on
ButtonOff ==
    /\ skmode
    /\ StinkModeOffBegin(0)
    /\ UNCHANGED <<skons, sktimer, skOthers>>

\* asyncio.sleep(seconds) is over: the timer task calls stink_mode_off
AutoOffTimerExpires(t) ==
    /\ sktimer[t] = "sleeping"
    /\ skcancel[t] = "none"
    /\ sktimer' = [sktimer EXCEPT ![t] = "off"]
    /\ StinkModeOffBegin(t)
    /\ UNCHANGED <<skons, skOthers>>

\* CancelledError reaches a timer task in its sleep
AutoOffTimerCancelled(t) ==
    /\ sktimer[t] = "sleeping"
    /\ skcancel[t] # "none"
    /\ sktimer' = [sktimer EXCEPT ![t] = "cancelled"]
    /\ UNCHANGED <<skmode, skons, skcancel, skpc, skissued, skOthers>>

\* a task with a cancellation requested gets CancelledError at the await that
\* suspends it; "except Exception" does not catch it
CancelledAtAwait(r, outcome) ==
    r > 0 /\ skcancel[r] # "none" /\ outcome = "suspends"

\* the state of timer task t when its stink_mode_off is over
TimerEnd(t, thrown) == IF thrown THEN "aborted" ELSE "finished"

\* stink_mode_off in task r awaits its next restore command
RestoreCommand(r, outcome) ==
    /\ skpc[r] \in 1..Len(RestoreOrder)
    /\ skissued' = [skissued EXCEPT ![r] = @ \cup {RestoreOrder[skpc[r]]}]
    /\ IF CancelledAtAwait(r, outcome) \/ outcome = "raises" \/ skpc[r] = Len(RestoreOrder)
       THEN /\ skpc' = [skpc EXCEPT ![r] = 0]
            /\ sktimer' = IF r > 0
                          THEN [sktimer EXCEPT ![r] = TimerEnd(r, CancelledAtAwait(r, outcome))]
                          ELSE sktimer
       ELSE /\ skpc' = [skpc EXCEPT ![r] = @ + 1]
            /\ UNCHANGED sktimer
    /\ UNCHANGED <<skmode, skons, skcancel, skOthers>>

StinkNext ==
    \/ StinkModeOn
    \/ ButtonOff
    \/ \E t \in Timers : AutoOffTimerExpires(t)
    \/ \E t \in Timers : AutoOffTimerCancelled(t)
    \/ \E r \in OffRunners, outcome \in AwaitOutcomes : RestoreCommand(r, outcome)

StinkInit == Init /\ kind = "async"

StinkSpec == StinkInit /\ [][StinkNext]_vars

\* C37: when the auto-off timer has expired without any other task cancelling
\* it and its stink_mode_off is over, and stink mode has not been switched on
\* again, stink_mode is False and all four restore commands have been issued.
C37_AutoOffCompletes ==
    \A t \in Timers :
        (sktimer[t] \in {"finished", "aborted"} /\ skcancel[t] # "other" /\ skons = t)
        => (~skmode /\ skissued[t] = RestoreCommands)

\* ------------------------------------------------------------------------
twOthers == <<mainVars, hbVars, bulkVars, shutVars, lookupVars, condVars, pollVars, discVars, hbchVars, contVars, hlVars, skVars, rcVars>>

\* ------------------------------------------- wait_for_status and its timeout
\* "timeout: float = None"
NoTimeout == -1

\* the timeout arguments a caller passes
Timeouts == {NoTimeout} \cup (0..MaxTimeout)

\* "if timeout:" is false for None and for 0
TimeoutGiven(timeout) == timeout # NoTimeout /\ timeout # 0

\* wait_for_status up to its suspension: the event is cleared, then awaited
\* under asyncio.wait_for when "if timeout:" holds and bare otherwise
WaitForStatus(timeout) ==
    /\ twpc = "idle"
    /\ twcalls < MaxCalls
    /\ twcalls' = twcalls + 1
    /\ twarg' = timeout
    /\ twevent' = FALSE
    /\ IF TimeoutGiven(timeout)
       THEN /\ twpc' = "waiting"
            /\ twres' = "unset"
            /\ twleft' = timeout
       ELSE /\ twpc' = "waiting"
            /\ twres' = "unset"
            /\ twleft' = NoTimeout
    /\ UNCHANGED <<twmsgs, twOthers>>

\* the transport delivers a status message: the event is set and a suspended
\* call returns True
TimedStatusUpdate ==
    /\ twmsgs < MaxUpdates
    /\ twmsgs' = twmsgs + 1
    /\ twevent' = TRUE
    /\ IF twpc = "waiting"
       THEN /\ twpc' = "done"
            /\ twres' = "True"
            /\ twleft' = NoTimeout
       ELSE UNCHANGED <<twpc, twres, twleft>>
    /\ UNCHANGED <<twarg, twcalls, twOthers>>

\* a second passes on the wait_for timer
TimerTick ==
    /\ twpc = "waiting"
    /\ twleft > 0
    /\ twleft' = twleft - 1
    /\ UNCHANGED <<twpc, twarg, twevent, twres, twcalls, twmsgs, twOthers>>

\* the wait_for timer runs out: asyncio.TimeoutError, "return False"
TimerFires ==
    /\ twpc = "waiting"
    /\ twleft = 0
    /\ twpc' = "done"
    /\ twres' = "False"
    /\ twleft' = NoTimeout
    /\ UNCHANGED <<twarg, twevent, twcalls, twmsgs, twOthers>>

\* the caller has its result
TimedWaitReturn ==
    /\ twpc = "done"
    /\ twpc' = "idle"
    /\ UNCHANGED <<twarg, twleft, twevent, twres, twcalls, twmsgs, twOthers>>

TimedWaitNext ==
    \/ \E timeout \in Timeouts : WaitForStatus(timeout)
    \/ TimedStatusUpdate
    \/ TimerTick
    \/ TimerFires
    \/ TimedWaitReturn

TimedWaitInit == Init /\ kind = "async"

\* time passes and an expired timer fires; nothing obliges the transport to
\* deliver a message
TimedWaitFairness == WF_vars(TimerTick) /\ WF_vars(TimerFires)

TimedWaitSpec == TimedWaitInit /\ [][TimedWaitNext]_vars /\ TimedWaitFairness

\* C38: a wait_for_status call made with a timeout of 0 comes to an end, and
\* it ends with False unless a status message was delivered to it.
C38_ZeroTimeoutReturns ==
    /\ (twpc = "waiting" /\ twarg = 0) ~> (twpc = "done")
    /\ [](twpc = "done" /\ twarg = 0 /\ ~twevent => twres = "False")

\* ------------------------------------------------------------------------
rcOthers == <<mainVars, hbVars, bulkVars, shutVars, lookupVars, condVars, pollVars, discVars, hbchVars, contVars, hlVars, skVars, twVars>>

\* ------------------------------------------------ ESPHomeACComponent._reconnect
\* the tasks that run heartbeat on one ESPHome component
ReconnectCallers == {"h1", "h2"}

\* a task is inside the body of "async with self._reconnection_lock" past the
\* "if self.connected" test
Attempting(c) == rcpc[c] \in {"cleanup", "connecting", "verifying"}

\* the connection to the device fails
LinkDrops ==
    /\ rclink = "up"
    /\ rcgen < MaxReconnects
    /\ rclink' = "down"
    /\ UNCHANGED <<rcconn, rclock, rcgen, rcpc, rcprobe, rcredo, rcOthers>>

\* heartbeat up to its first suspension: "if not self.connected" calls
\* _reconnect, else device_info is awaited on the current client
HeartbeatBegin(c) ==
    /\ rcpc[c] = "idle"
    /\ rcgen < MaxReconnects
    /\ rcprobe' = [rcprobe EXCEPT ![c] = rcgen]
    /\ rcpc' = [rcpc EXCEPT ![c] = IF rcconn THEN "probing" ELSE "locking"]
    /\ UNCHANGED <<rclink, rcconn, rclock, rcgen, rcredo, rcOthers>>

\* device_info returns on a working connection; on a failed connection, or on
\* a client _reconnect has disconnected, it raises: heartbeat's handler clears
\* self.connected and calls _reconnect
ProbeReturns(c) ==
    /\ rcpc[c] = "probing"
    /\ IF rcprobe[c] = rcgen /\ rclink = "up"
       THEN /\ rcpc' = [rcpc EXCEPT ![c] = "idle"]
            /\ UNCHANGED rcconn
       ELSE /\ rcpc' = [rcpc EXCEPT ![c] = "locking"]
            /\ rcconn' = FALSE
    /\ UNCHANGED <<rclink, rclock, rcgen, rcprobe, rcredo, rcOthers>>

\* "if self.connected: return True" under the lock
AlreadyReconnected(connected) == connected

\* the lock is acquired: the task returns True when self.connected is set, else
\* it starts the attempt with "await self.client.disconnect()"
LockAcquire(c) ==
    /\ rcpc[c] = "locking"
    /\ rclock = ""
    /\ IF AlreadyReconnected(rcconn)
       THEN /\ rcpc' = [rcpc EXCEPT ![c] = "idle"]
            /\ UNCHANGED <<rclock, rcredo>>
       ELSE /\ rcpc' = [rcpc EXCEPT ![c] = "cleanup"]
            /\ rclock' = c
            /\ rcredo' = IF rcgen > rcprobe[c] /\ rclink = "up"
                         THEN rcredo \cup {c} ELSE rcredo
    /\ UNCHANGED <<rclink, rcconn, rcgen, rcprobe, rcOthers>>

\* the old client is disconnected and a new APIClient created
CleanupDone(c) ==
    /\ rcpc[c] = "cleanup"
    /\ rcgen < MaxReconnects
    /\ rcgen' = rcgen + 1
    /\ rclink' = "down"
    /\ rcpc' = [rcpc EXCEPT ![c] = "connecting"]
    /\ UNCHANGED <<rcconn, rclock, rcprobe, rcredo, rcOthers>>

\* connect(login=True) returns and self.connected is set, or it raises: the
\* handler clears self.connected, returns False and the lock is released
ConnectReturns(c, ok) ==
    /\ rcpc[c] = "connecting"
    /\ IF ok
       THEN /\ rclink' = "up"
            /\ rcconn' = TRUE
            /\ rcpc' = [rcpc EXCEPT ![c] = "verifying"]
            /\ UNCHANGED rclock
       ELSE /\ rcconn' = FALSE
            /\ rcpc' = [rcpc EXCEPT ![c] = "idle"]
            /\ rclock' = ""
            /\ UNCHANGED rclink
    /\ UNCHANGED <<rcgen, rcprobe, rcredo, rcOthers>>

\* device_info, _discover_entities and _setup_state_subscription are over:
\* _reconnect returns True; when the connection failed meanwhile they raise,
\* self.connected is cleared and it returns False
VerifyReturns(c) ==
    /\ rcpc[c] = "verifying"
    /\ rcconn' = IF rclink = "up" THEN rcconn ELSE FALSE
    /\ rcpc' = [rcpc EXCEPT ![c] = "idle"]
    /\ rclock' = ""
    /\ UNCHANGED <<rclink, rcgen, rcprobe, rcredo, rcOthers>>

ReconnectNext ==
    \/ LinkDrops
    \/ \E c \in ReconnectCallers : HeartbeatBegin(c)
    \/ \E c \in ReconnectCallers : ProbeReturns(c)
    \/ \E c \in ReconnectCallers : LockAcquire(c)
    \/ \E c \in ReconnectCallers : CleanupDone(c)
    \/ \E c \in ReconnectCallers, ok \in BOOLEAN : ConnectReturns(c, ok)
    \/ \E c \in ReconnectCallers : VerifyReturns(c)

ReconnectInit == Init /\ kind = "async"

ReconnectSpec == ReconnectInit /\ [][ReconnectNext]_vars

\* C39: at most one reconnection attempt is in progress, and no task that gets
\* the lock after another task has reconnected (the client was replaced since
\* its own call began and the new connection works) disconnects it again.
C39_ReconnectExclusive ==
    /\ \A c, d \in ReconnectCallers : (Attempting(c) /\ Attempting(d)) => c = d
    /\ rcredo = {}

====
